---- MODULE Spec2Model ----
(***************************************************************************)
(* Model of the TodoApp synchronization core: the entity merge engine      *)
(* (syncMerge.ts), the server sync handler (api/t/[uid].ts with db.ts and  *)
(* crypto.ts) and the client sync sessions (autoSync.ts, Sync.tsx).        *)
(***************************************************************************)
EXTENDS Integers, Sequences, FiniteSets, TLC

(***************************************************************************)
(* Bounds of the model.                                                    *)
(***************************************************************************)
\* longest task / category list drawn as an input of the merge engine
MaxLen == 2
\* lastSave values drawn for merge inputs are 1..MaxStamp (or missing)
MaxStamp == 2
\* numericId values drawn for merge inputs are 1..MaxNumericId (or missing)
MaxNumericId == 1
\* requests the server handles at the same time
MaxInFlight == 2
\* requests the environment sends to the server in one behaviour
MaxRequests == 3
MaxClock == 2
MaxOps == 2
MaxSyncs == 4
\* key derivations and getNextNumericId calls made in one behaviour
MaxDerivations == 2
MaxCalls == 2

(***************************************************************************)
(* Data model: Task and Category share id, numericId?, name, lastSave?.    *)
(***************************************************************************)
\* an optional field that is absent (numericId?: number, lastSave?: Date)
Undefined == -1

Ids == {"a", "b"}
Names == {"x", "y"}

Entities ==
    [id : Ids,
     numericId : {Undefined} \cup (1..MaxNumericId),
     lastSave : {Undefined} \cup (1..MaxStamp),
     name : Names]

\* the arrays of at most n entities
Collections(n) == UNION {[1..k -> Entities] : k \in 0..n}

SeqToSet(s) == {s[i] : i \in 1..Len(s)}
IdsOf(s) == {s[i].id : i \in 1..Len(s)}

(***************************************************************************)
(* The merge engine keeps a JavaScript Map: keys are numbers (numericId)   *)
(* or strings (id), a number never equals a string, and iteration follows  *)
(* first insertion.  A map is a sequence of [key, val] entries.            *)
(***************************************************************************)
\* task.numericId !== undefined ? task.numericId : task.id
MergeKey(e) ==
    IF e.numericId # Undefined
    THEN [num |-> e.numericId, str |-> ""]
    ELSE [num |-> Undefined, str |-> e.id]

MapHas(m, k) == \E i \in 1..Len(m) : m[i].key = k
MapIndex(m, k) == CHOOSE i \in 1..Len(m) : m[i].key = k
MapGet(m, k) == m[MapIndex(m, k)].val
MapSet(m, k, v) ==
    IF MapHas(m, k)
    THEN [m EXCEPT ![MapIndex(m, k)] = [key |-> k, val |-> v]]
    ELSE Append(m, [key |-> k, val |-> v])
MapValues(m) == [i \in 1..Len(m) |-> m[i].val]

\* x.lastSave ? new Date(x.lastSave).getTime() : 0
SaveTime(e) == IF e.lastSave = Undefined THEN 0 ELSE e.lastSave

\* first loop of mergeTasks: every local task is set under its key
RECURSIVE AddLocalTasks(_, _)
AddLocalTasks(m, localTasks) ==
    IF localTasks = <<>> THEN m
    ELSE AddLocalTasks(MapSet(m, MergeKey(Head(localTasks)), Head(localTasks)),
                       Tail(localTasks))

\* the comparison that lets a remote task replace the map entry
RemoteTaskNeverWins(remoteTask, localTask) == FALSE
RemoteTaskWinsOnTie(remoteTask, localTask) == SaveTime(remoteTask) >= SaveTime(localTask)
RemoteTaskWins(remoteTask, localTask) == SaveTime(remoteTask) > SaveTime(localTask)

\* one iteration of the second loop of mergeTasks
MergeRemoteTask(m, remoteTask, deletedTasks) ==
    LET key == MergeKey(remoteTask) IN
    IF ~MapHas(m, key)
    THEN IF remoteTask.id \notin deletedTasks
         THEN MapSet(m, key, remoteTask)
         ELSE m
    ELSE IF RemoteTaskWins(remoteTask, MapGet(m, key))
         THEN MapSet(m, key, remoteTask)
         ELSE m

RECURSIVE MergeRemoteTasks(_, _, _)
MergeRemoteTasks(m, remoteTasks, deletedTasks) ==
    IF remoteTasks = <<>> THEN m
    ELSE MergeRemoteTasks(MergeRemoteTask(m, Head(remoteTasks), deletedTasks),
                          Tail(remoteTasks), deletedTasks)

\* the final filter of mergeTasks
KeepDeletedTasks(tasks, deletedTasks) == tasks
FilterDeletedTasks(tasks, deletedTasks) ==
    LET keep(t) == t.id \notin deletedTasks IN SelectSeq(tasks, keep)

mergeTasks(localTasks, remoteTasks, deletedTasks) ==
    FilterDeletedTasks(
        MapValues(MergeRemoteTasks(AddLocalTasks(<<>>, localTasks),
                                   remoteTasks, deletedTasks)),
        deletedTasks)

\* mergeCategories repeats the algorithm on categories
RECURSIVE AddLocalCategories(_, _)
AddLocalCategories(m, localCategories) ==
    IF localCategories = <<>> THEN m
    ELSE AddLocalCategories(
             MapSet(m, MergeKey(Head(localCategories)), Head(localCategories)),
             Tail(localCategories))

RemoteCategoryWins(remoteCategory, localCategory) ==
    SaveTime(remoteCategory) > SaveTime(localCategory)

MergeRemoteCategory(m, remoteCategory, deletedCategories) ==
    LET key == MergeKey(remoteCategory) IN
    IF ~MapHas(m, key)
    THEN IF remoteCategory.id \notin deletedCategories
         THEN MapSet(m, key, remoteCategory)
         ELSE m
    ELSE IF RemoteCategoryWins(remoteCategory, MapGet(m, key))
         THEN MapSet(m, key, remoteCategory)
         ELSE m

RECURSIVE MergeRemoteCategories(_, _, _)
MergeRemoteCategories(m, remoteCategories, deletedCategories) ==
    IF remoteCategories = <<>> THEN m
    ELSE MergeRemoteCategories(
             MergeRemoteCategory(m, Head(remoteCategories), deletedCategories),
             Tail(remoteCategories), deletedCategories)

KeepDeletedCategories(categories, deletedCategories) == categories
FilterDeletedCategories(categories, deletedCategories) ==
    LET keep(c) == c.id \notin deletedCategories IN SelectSeq(categories, keep)

mergeCategories(localCategories, remoteCategories, deletedCategories) ==
    FilterDeletedCategories(
        MapValues(MergeRemoteCategories(AddLocalCategories(<<>>, localCategories),
                                        remoteCategories, deletedCategories)),
        deletedCategories)

(***************************************************************************)
(* Keys, hashes and the sealed box.                                        *)
(***************************************************************************)
Uids == {[uid |-> "u1"], [uid |-> "u2"]}
KeyPairs == {"k1", "k2"}
\* hex public / private key of a key pair
PublicKeyOf(k) == [pub |-> k]
PrivateKeyOf(k) == [priv |-> k]
PublicKeys == {PublicKeyOf(k) : k \in KeyPairs}

\* sha256: the hex digest of a string; distinct strings have distinct digests
sha256(input) == [sha256 |-> input]

\* a validation that accepts any hash
AnyHashValid(publicKey, publicKeyHash) == TRUE
\* validatePublicKeyHash: sha256(publicKey) === publicKeyHash
validatePublicKeyHash(publicKey, publicKeyHash) == sha256(publicKey) = publicKeyHash

\* crypto_box_seal draws a random ephemeral key pair for every call
Ephemerals == {"e1", "e2"}
\* crypto_box_seal(dataBytes, publicKey): the sealed bytes
crypto_box_seal(dataBytes, publicKey, eph) ==
    [to |-> publicKey, eph |-> eph, sealed |-> dataBytes]
\* Buffer.from(bytes).toString("base64"): standard alphabet, padded
uint8ArrayToBase64(bytes) == [alphabet |-> "standard", bytes |-> bytes]
\* server encryptData(JSON.stringify(data), user.public_key)
encryptData(data, publicKey, eph) ==
    uint8ArrayToBase64(crypto_box_seal(data, publicKey, eph))

\* a box that opens under any pair of keys
SealOpensAnyKey(bytes, publicKey, privateKey) == TRUE
\* crypto_box_seal_open(encrypted, publicKey, privateKey)
SealOpens(bytes, publicKey, privateKey) ==
    \E k \in KeyPairs : /\ publicKey = PublicKeyOf(k)
                        /\ privateKey = PrivateKeyOf(k)
                        /\ bytes.to = publicKey
crypto_box_seal_open(bytes) == bytes.sealed

(***************************************************************************)
(* Requests and responses of the sync endpoint.                            *)
(***************************************************************************)
Missing == [missing |-> TRUE]
\* abstract request payloads used when the environment drives the server
EnvPayloads == {[payload |-> "p1"], [payload |-> "p2"]}

NoRow == [present |-> FALSE]
NoResp == [status |-> 0]
IdleReq ==
    [pc |-> "idle", method |-> "", uid |-> Missing, publicKeyHash |-> Missing,
     publicKey |-> Missing, data |-> Missing, merged |-> FALSE,
     user |-> NoRow, existingData |-> NoRow, resp |-> NoResp,
     atArrival |-> NoRow, wrote |-> FALSE]

Slots == 1..MaxInFlight

ErrorResp(status, error) == [status |-> status, error |-> error]
OkResp(encryptedData, version, needsMerge) ==
    [status |-> 200, encryptedData |-> encryptedData, version |-> version,
     needsMerge |-> needsMerge]

(***************************************************************************)
(* The client: the user's working copy on a device and its sync session.   *)
(***************************************************************************)
Devices == {"A", "B"}
\* User: the working copy (defaultUser holds no tasks and no tombstones)
defaultUser ==
    [tasks |-> <<>>, categories |-> <<>>, deletedTasks |-> {},
     deletedCategories |-> {}, lastSyncedAt |-> Undefined]
\* handleSync between its awaits: "idle", "phase1" (awaiting the first
\* response), "phase2" (awaiting the response to the merged data); state is
\* the screen's "idle", "syncing", "success" or "error"; user is the working
\* copy the call closed over
IdleSession ==
    [pc |-> "idle", state |-> "idle", user |-> defaultUser, mergedTasks |-> <<>>,
     mergedCategories |-> <<>>, peerDeleted |-> {}]
\* history kept per device: ids it added or edited, tombstones covered by a
\* completed session
NoHistory == [touched |-> {}, syncedDeleted |-> {}]
\* no observation of the settled system has been taken
NoMark == [set |-> FALSE]
\* autoSync.ts: no timer is pending; lastSyncedData is null
NoTimer == [set |-> FALSE]
Null == [null |-> TRUE]
\* the module state of autoSync.ts (isSyncing, syncTimeout, lastSyncedData),
\* whether localStorage holds the sync credentials, and the timer callback
\* between its awaits with the user and currentDataHash it closed over, and
\* the callback's last console message
IdleAuto ==
    [credentials |-> FALSE, isSyncing |-> FALSE, syncTimeout |-> NoTimer,
     lastSyncedData |-> Null, pc |-> "idle", user |-> defaultUser,
     currentDataHash |-> Null, mergedTasks |-> <<>>, mergedCategories |-> <<>>,
     log |-> "none"]

\* the library before any call: nothing derived, no counter stored, no text
NoReturn == [called |-> FALSE]
IdleLib ==
    [userId |-> "u1", password |-> "p1", derived |-> <<>>,
     taskIdCounter |-> 0, categoryIdCounter |-> 0, returned |-> NoReturn,
     calls |-> 0, plaintext |-> Missing, sealed |-> Missing, opened |-> Missing]

(***************************************************************************)
(* State.                                                                  *)
(***************************************************************************)
VARIABLES
    \* the merge engine applied to drawn inputs
    mLocal, mRemote, mDeleted, mTasks, mCategories, mDone,
    \* the durable store: rows of the tables users and user_data
    users, userData,
    \* the handler module's initializationPromise: "null", "pending", "fulfilled"
    initializationPromise,
    \* the requests being handled, one per slot, with the handler's locals
    req,
    \* requests sent by the environment so far
    reqCount,
    \* history: saveUserData statements executed per uid
    writes,
    \* the working copy of each device and its sync session
    dev, sess,
    \* the wall clock read by new Date()
    now,
    \* local changes made and sync sessions started so far
    opCount, syncCount,
    \* history per device, and the observation taken once the devices have
    \* stopped making local changes
    ghost, mark,
    \* the automatic sync of each device
    auto,
    \* the key and id library on drawn inputs: the keys derived so far, the
    \* counters kept in localStorage, and a sealed text with what was read in it
    lib

mergeVars == <<mLocal, mRemote, mDeleted, mTasks, mCategories, mDone>>
serverVars == <<users, userData, initializationPromise, req, reqCount, writes>>
clientVars == <<dev, sess, now, opCount, syncCount, ghost, mark>>
autoVars == <<auto>>
libVars == <<lib>>
vars == <<mergeVars, serverVars, clientVars, autoVars, libVars>>

(***************************************************************************)
(* db.ts: the queries of the durable store.                                *)
(***************************************************************************)
\* SELECT ... FROM users WHERE uid = ${uid}; result[0] or null
getUser(uid) ==
    IF \E row \in users : row.uid = uid
    THEN CHOOSE row \in users : row.uid = uid
    ELSE NoRow

\* SELECT ... FROM user_data WHERE uid = ${uid}; result[0] or null
getUserData(uid) ==
    IF \E row \in userData : row.uid = uid
    THEN CHOOSE row \in userData : row.uid = uid
    ELSE NoRow

\* INSERT INTO users: uid is the PRIMARY KEY, public_key_hash is UNIQUE
createUserConflicts(uid, publicKeyHash) ==
    \E row \in users : row.uid = uid \/ row.public_key_hash = publicKeyHash
createUser(uid, publicKeyHash, publicKey) ==
    users \cup {[present |-> TRUE, uid |-> uid, public_key_hash |-> publicKeyHash,
                 public_key |-> publicKey]}

\* saveUserData: currentVersion = version !== undefined ? Number(version) : 0
NewVersion(uid, existingData) ==
    IF existingData.present THEN existingData.version + 1 ELSE 1

\* an upsert that keeps the stored row unless the new version is higher
saveUserDataIfNewer(uid, encryptedData, newVersion) ==
    IF \E row \in userData : row.uid = uid /\ row.version >= newVersion
    THEN userData
    ELSE {row \in userData : row.uid # uid}
            \cup {[present |-> TRUE, uid |-> uid,
                   encrypted_data |-> encryptedData, version |-> newVersion]}
\* INSERT INTO user_data ... ON CONFLICT (uid) DO UPDATE
saveUserData(uid, encryptedData, newVersion) ==
    {row \in userData : row.uid # uid}
        \cup {[present |-> TRUE, uid |-> uid, encrypted_data |-> encryptedData,
               version |-> newVersion]}

(***************************************************************************)
(* api/t/[uid].ts: the handler, one action per stretch between awaits.     *)
(***************************************************************************)
Done(r, resp) == [r EXCEPT !.pc = "done", !.resp = resp]

\* handler entry: the method check, then ensureInitialized up to its await
HandlerEnter(s, request) ==
    LET r == [IdleReq EXCEPT !.method = request.method, !.uid = request.uid,
                             !.publicKeyHash = request.publicKeyHash,
                             !.publicKey = request.publicKey,
                             !.data = request.data, !.merged = request.merged,
                             !.atArrival = [user |-> getUser(request.uid),
                                            data |-> getUserData(request.uid)]]
    IN
    IF request.method # "POST"
    THEN /\ req' = [req EXCEPT ![s] = Done(r, ErrorResp(405, "Method not allowed"))]
         /\ UNCHANGED initializationPromise
    ELSE /\ req' = [req EXCEPT ![s] =
                       [r EXCEPT !.pc = IF initializationPromise = "fulfilled"
                                        THEN "validate" ELSE "init"]]
         /\ initializationPromise' =
                IF initializationPromise = "null" THEN "pending"
                ELSE initializationPromise

\* testConnection and initializeDatabase succeed: every awaiting request goes on
InitSucceeds ==
    /\ initializationPromise = "pending"
    /\ initializationPromise' = "fulfilled"
    /\ req' = [s \in Slots |->
                 IF req[s].pc = "init" THEN [req[s] EXCEPT !.pc = "validate"]
                 ELSE req[s]]
    /\ UNCHANGED <<users, userData, reqCount, writes>>

\* a failing attempt that leaves its rejected promise in place
InitFailsWithoutReset ==
    /\ initializationPromise = "pending"
    /\ UNCHANGED initializationPromise
    /\ req' = [s \in Slots |->
                 IF req[s].pc = "init"
                 THEN Done(req[s], ErrorResp(500, "Failed to connect to database"))
                 ELSE req[s]]
    /\ UNCHANGED <<users, userData, reqCount, writes>>
\* the attempt throws: the promise is reset and every awaiting request ends 500
InitFails ==
    /\ initializationPromise = "pending"
    /\ initializationPromise' = "null"
    /\ req' = [s \in Slots |->
                 IF req[s].pc = "init"
                 THEN Done(req[s], ErrorResp(500, "Failed to connect to database"))
                 ELSE req[s]]
    /\ UNCHANGED <<users, userData, reqCount, writes>>

\* the uid check, the required-fields check and validatePublicKeyHash
Validate(s) ==
    /\ req[s].pc = "validate"
    /\ req' = [req EXCEPT ![s] =
          IF req[s].uid = Missing
          THEN Done(req[s], ErrorResp(400, "Missing or invalid UID parameter"))
          ELSE IF \/ req[s].publicKeyHash = Missing
                  \/ req[s].publicKey = Missing
                  \/ req[s].data = Missing
          THEN Done(req[s], ErrorResp(400,
                   "Missing required fields: publicKeyHash, publicKey, data"))
          ELSE IF ~validatePublicKeyHash(req[s].publicKey, req[s].publicKeyHash)
          THEN Done(req[s], ErrorResp(403, "Invalid user ID or password"))
          ELSE [req[s] EXCEPT !.pc = "getUser"]]
    /\ UNCHANGED <<users, userData, initializationPromise, reqCount, writes>>

\* a check of the stored hash that lets every request pass
AcceptAnyHash(r, user) == [r EXCEPT !.user = user, !.pc = "getUserData"]
\* user.public_key_hash !== publicKeyHash: 403, else on to getUserData
CheckStoredHash(r, user) ==
    IF user.public_key_hash # r.publicKeyHash
    THEN Done([r EXCEPT !.user = user], ErrorResp(403, "Invalid user ID or password"))
    ELSE [r EXCEPT !.user = user, !.pc = "getUserData"]

\* let user = await getUser(decodedUid)
GetUser(s) ==
    /\ req[s].pc = "getUser"
    /\ req' = [req EXCEPT ![s] =
          IF ~getUser(req[s].uid).present
          THEN [req[s] EXCEPT !.pc = "createUser"]
          ELSE CheckStoredHash(req[s], getUser(req[s].uid))]
    /\ UNCHANGED <<users, userData, initializationPromise, reqCount, writes>>

\* await createUser(...): the INSERT throws on a duplicate uid or hash
CreateUser(s) ==
    /\ req[s].pc = "createUser"
    /\ IF createUserConflicts(req[s].uid, req[s].publicKeyHash)
       THEN /\ req' = [req EXCEPT ![s] =
                   Done(req[s], ErrorResp(500, "Internal server error"))]
            /\ UNCHANGED users
       ELSE /\ users' = createUser(req[s].uid, req[s].publicKeyHash, req[s].publicKey)
            /\ req' = [req EXCEPT ![s].pc = "getUser2"]
    /\ UNCHANGED <<userData, initializationPromise, reqCount, writes>>

\* user = await getUser(decodedUid) after the insert
GetUserAgain(s) ==
    /\ req[s].pc = "getUser2"
    /\ req' = [req EXCEPT ![s] =
          IF ~getUser(req[s].uid).present
          THEN Done(req[s], ErrorResp(500, "Internal server error"))
          ELSE CheckStoredHash(req[s], getUser(req[s].uid))]
    /\ UNCHANGED <<users, userData, initializationPromise, reqCount, writes>>

\* !existingData || !existingData.encrypted_data || merged === true
AlwaysStore(existingData, merged) == TRUE
StoresData(existingData, merged) ==
    \/ ~existingData.present
    \/ existingData.encrypted_data = Missing
    \/ merged = TRUE

\* const existingData = await getUserData(decodedUid), and the else branch
GetUserData(s) ==
    /\ req[s].pc = "getUserData"
    /\ LET existingData == getUserData(req[s].uid) IN
       req' = [req EXCEPT ![s] =
          IF StoresData(existingData, req[s].merged)
          THEN [req[s] EXCEPT !.existingData = existingData, !.pc = "save"]
          ELSE Done([req[s] EXCEPT !.existingData = existingData],
                    OkResp(existingData.encrypted_data, existingData.version, TRUE))]
    /\ UNCHANGED <<users, userData, initializationPromise, reqCount, writes>>

\* encryptData (a fresh ephemeral key), saveUserData and the 200 response
SaveUserData(s) ==
    /\ req[s].pc = "save"
    /\ \E eph \in Ephemerals :
         LET encryptedData == encryptData(req[s].data, req[s].user.public_key, eph)
             newVersion == NewVersion(req[s].uid, req[s].existingData)
         IN /\ userData' = saveUserData(req[s].uid, encryptedData, newVersion)
            /\ req' = [req EXCEPT ![s] =
                   Done([req[s] EXCEPT !.wrote = TRUE],
                        OkResp(encryptedData, newVersion, FALSE))]
    /\ writes' = [writes EXCEPT ![req[s].uid] = @ + 1]
    /\ UNCHANGED <<users, initializationPromise, reqCount>>

(***************************************************************************)
(* SpecServer: the environment sends any request of EnvRequests.           *)
(***************************************************************************)
\* every request shape for the first user id; for the second user id a first
\* sync under either key; one request whose hash is not that of its key; and
\* the requests the handler rejects for their shape
FirstUid == [uid |-> "u1"]
FirstPayload == [payload |-> "p1"]
Request(uid, k, h, data, merged) ==
    [method |-> "POST", uid |-> uid, publicKeyHash |-> sha256(PublicKeyOf(h)),
     publicKey |-> PublicKeyOf(k), data |-> data, merged |-> merged]
WellFormedRequests ==
    {Request(FirstUid, k, k, data, merged) :
        k \in KeyPairs, data \in EnvPayloads, merged \in BOOLEAN}
    \cup {Request(uid, k, k, FirstPayload, FALSE) : uid \in Uids, k \in KeyPairs}
BadHashRequests == {Request(FirstUid, "k1", "k2", FirstPayload, FALSE)}
SomeRequest == Request(FirstUid, "k1", "k1", FirstPayload, FALSE)
MalformedRequests ==
    {[SomeRequest EXCEPT !.method = "GET"],
     [SomeRequest EXCEPT !.uid = Missing],
     [SomeRequest EXCEPT !.publicKeyHash = Missing],
     [SomeRequest EXCEPT !.publicKey = Missing],
     [SomeRequest EXCEPT !.data = Missing]}
EnvRequests == WellFormedRequests \cup BadHashRequests \cup MalformedRequests

EnvSend(s) ==
    /\ req[s].pc = "idle"
    /\ reqCount < MaxRequests
    /\ reqCount' = reqCount + 1
    /\ \E request \in EnvRequests : HandlerEnter(s, request)
    /\ UNCHANGED <<users, userData, writes>>

\* the response has been sent: the slot is free for the next request
EnvReceive(s) ==
    /\ req[s].pc = "done"
    /\ req' = [req EXCEPT ![s] = IdleReq]
    /\ UNCHANGED <<users, userData, initializationPromise, reqCount, writes>>

InitServerVars ==
    /\ users = {}
    /\ userData = {}
    /\ initializationPromise = "null"
    /\ req = [s \in Slots |-> IdleReq]
    /\ reqCount = 0
    /\ writes = [uid \in Uids |-> 0]

InitMergeIdle ==
    /\ mLocal = <<>> /\ mRemote = <<>> /\ mDeleted = {}
    /\ mTasks = <<>> /\ mCategories = <<>> /\ mDone = FALSE

InitClient ==
    /\ dev = [d \in Devices |-> defaultUser]
    /\ sess = [d \in Devices |-> IdleSession]
    /\ now = 1
    /\ opCount = 0
    /\ syncCount = 0
    /\ ghost = [d \in Devices |-> NoHistory]
    /\ mark = NoMark
    /\ auto = [d \in Devices |-> IdleAuto]

InitLibIdle == lib = IdleLib

InitServer == InitServerVars /\ InitMergeIdle /\ InitClient /\ InitLibIdle

NextServer ==
    \/ \E s \in Slots : (EnvSend(s) /\ UNCHANGED <<mergeVars, libVars, clientVars, autoVars>>)
    \/ \E s \in Slots : (EnvReceive(s) /\ UNCHANGED <<mergeVars, libVars, clientVars, autoVars>>)
    \/ (InitSucceeds /\ UNCHANGED <<mergeVars, libVars, clientVars, autoVars>>)
    \/ (InitFails /\ UNCHANGED <<mergeVars, libVars, clientVars, autoVars>>)
    \/ \E s \in Slots : (Validate(s) /\ UNCHANGED <<mergeVars, libVars, clientVars, autoVars>>)
    \/ \E s \in Slots : (GetUser(s) /\ UNCHANGED <<mergeVars, libVars, clientVars, autoVars>>)
    \/ \E s \in Slots : (CreateUser(s) /\ UNCHANGED <<mergeVars, libVars, clientVars, autoVars>>)
    \/ \E s \in Slots : (GetUserAgain(s) /\ UNCHANGED <<mergeVars, libVars, clientVars, autoVars>>)
    \/ \E s \in Slots : (GetUserData(s) /\ UNCHANGED <<mergeVars, libVars, clientVars, autoVars>>)
    \/ \E s \in Slots : (SaveUserData(s) /\ UNCHANGED <<mergeVars, libVars, clientVars, autoVars>>)

SpecServer == InitServer /\ [][NextServer]_vars

(***************************************************************************)
(* Claims about the server sync handler (checked under SpecServer).        *)
(***************************************************************************)
\* the request in slot s is a POST with uid, publicKeyHash, publicKey and data
WellFormed(r) ==
    /\ r.method = "POST"
    /\ r.uid # Missing /\ r.publicKeyHash # Missing
    /\ r.publicKey # Missing /\ r.data # Missing
\* ... whose hash is that of its key and of the identity stored when it arrived
ArrivedAuthenticated(r) ==
    /\ WellFormed(r)
    /\ validatePublicKeyHash(r.publicKey, r.publicKeyHash)
    /\ r.atArrival.user.present
    /\ r.atArrival.user.public_key_hash = r.publicKeyHash
InHandler(r) == r.pc \notin {"idle", "done"}
StoredVersion(uid) == IF getUserData(uid).present THEN getUserData(uid).version ELSE 0
\* what the holder of privateKey reads in a stored base64 text
Unsealed(encryptedData, publicKey, privateKey) ==
    IF SealOpens(encryptedData.bytes, publicKey, privateKey)
    THEN crypto_box_seal_open(encryptedData.bytes)
    ELSE Missing

\* C1: a request with merged:false that arrives authenticated for an identity
\* that already has a stored record never changes user_data, and ends with
\* status 200, needsMerge:true and the ciphertext and version of the row that
\* is stored at that moment.
C1_MergeRequired ==
    [][\A s \in Slots :
         (/\ InHandler(req[s])
          /\ ArrivedAuthenticated(req[s])
          /\ req[s].atArrival.data.present
          /\ req[s].merged = FALSE
          /\ req'[s] # req[s]) =>
            /\ userData' = userData
            /\ req'[s].pc = "done" =>
                 /\ req'[s].resp.status = 200
                 /\ req'[s].resp.needsMerge = TRUE
                 /\ req'[s].resp.encryptedData = getUserData(req[s].uid).encrypted_data
                 /\ req'[s].resp.version = getUserData(req[s].uid).version
                 /\ ~req'[s].wrote]_vars

\* C1 witness: such a request has been answered with the stored row while the
\* record was at version 2, another request being about to write.
C1_Witness ==
    \E s, t \in Slots :
        /\ req[s].pc = "done" /\ ArrivedAuthenticated(req[s])
        /\ req[s].atArrival.data.present /\ req[s].merged = FALSE
        /\ req[s].resp.status = 200 /\ req[s].resp.needsMerge = TRUE
        /\ req[s].resp.version = StoredVersion(req[s].uid)
        /\ req[t].pc = "save" /\ req[t].uid = req[s].uid

\* C2: a well-formed request with a valid hash that arrives while its user id
\* is unknown ends with the identity created under its key, the data stored,
\* and the response 200, needsMerge:false, version 1 (stated for requests
\* whose storage initialization succeeded, whose key is registered under no
\* other user id and whose user id is registered under no other key).
C2_AutoRegistration ==
    \A s \in Slots :
        (/\ req[s].pc = "done"
         /\ WellFormed(req[s])
         /\ validatePublicKeyHash(req[s].publicKey, req[s].publicKeyHash)
         /\ ~req[s].atArrival.user.present
         /\ req[s].resp # ErrorResp(500, "Failed to connect to database")
         /\ \A row \in users :
               row.public_key_hash = req[s].publicKeyHash <=> row.uid = req[s].uid) =>
            /\ req[s].resp.status = 200
            /\ req[s].resp.needsMerge = FALSE
            /\ req[s].resp.version = 1
            /\ getUser(req[s].uid).present
            /\ getUser(req[s].uid).public_key = req[s].publicKey
            /\ getUserData(req[s].uid).present

\* C3: an authenticated request with merged:true ends by writing the store:
\* the response is 200 with needsMerge:false, the stored version is the
\* version stored just before the write plus 1, and the stored ciphertext is
\* the returned one and opens, with the identity's private key, to the
\* submitted payload.
C3_Phase2Commit ==
    [][\A s \in Slots :
         (/\ InHandler(req[s])
          /\ ArrivedAuthenticated(req[s])
          /\ req[s].merged = TRUE
          /\ req'[s].pc = "done") =>
            /\ req'[s].resp.status = 200
            /\ req'[s].resp.needsMerge = FALSE
            /\ req'[s].wrote
            /\ getUserData(req[s].uid)' =
                 [present |-> TRUE, uid |-> req[s].uid,
                  encrypted_data |-> req'[s].resp.encryptedData,
                  version |-> StoredVersion(req[s].uid) + 1]
            /\ req'[s].resp.version = StoredVersion(req[s].uid) + 1
            /\ \E k \in KeyPairs :
                 /\ req[s].atArrival.user.public_key = PublicKeyOf(k)
                 /\ Unsealed(req'[s].resp.encryptedData, PublicKeyOf(k),
                             PrivateKeyOf(k)) = req[s].data]_vars

\* C4: the stored version of every identity equals the number of writes
\* performed on its record.
C4_VersionCountsWrites ==
    \A uid \in Uids : StoredVersion(uid) = writes[uid]

\* C5: no write leaves the stored version lower than or equal to the value it
\* held before that write.
C5_VersionMonotonic ==
    [][\A uid \in Uids :
         writes'[uid] # writes[uid] => StoredVersion(uid)' > StoredVersion(uid)]_vars

(***************************************************************************)
(* SpecMerge: the merge engine on every input within the bounds.           *)
(***************************************************************************)
InitMerge ==
    /\ mLocal \in Collections(MaxLen)
    /\ mRemote \in Collections(MaxLen)
    /\ mDeleted \in SUBSET Ids
    /\ mTasks = <<>>
    /\ mCategories = <<>>
    /\ mDone = FALSE
    /\ InitServerVars
    /\ InitClient
    /\ InitLibIdle

RunMerge ==
    /\ ~mDone
    /\ mTasks' = mergeTasks(mLocal, mRemote, mDeleted)
    /\ mCategories' = mergeCategories(mLocal, mRemote, mDeleted)
    /\ mDone' = TRUE
    /\ UNCHANGED <<mLocal, mRemote, mDeleted>>
    /\ UNCHANGED <<serverVars, clientVars, autoVars, libVars>>

NextMerge == RunMerge

SpecMerge == InitMerge /\ [][NextMerge]_vars

\* a side holds exactly one entity under key k
OneUnderKey(side, k) == Cardinality({i \in 1..Len(side) : MergeKey(side[i]) = k}) = 1
\* no two entries of a side share an id or a numericId
UniqueOnSide(side) ==
    \A i, j \in 1..Len(side) :
        i # j => /\ side[i].id # side[j].id
                 /\ MergeKey(side[i]) # MergeKey(side[j])

\* C8: every id of the local or the remote collection that is not in the
\* tombstone set appears in the merged result, also when entities of the two
\* sides carry the same numericId (stated for sides that each hold no id and
\* no numericId twice, the case the claim names).
C8_MergeLosesNoData ==
    (mDone /\ UniqueOnSide(mLocal) /\ UniqueOnSide(mRemote)) =>
        \A id \in (IdsOf(mLocal) \cup IdsOf(mRemote)) \ mDeleted : id \in IdsOf(mTasks)

\* C9: no entity whose id is in the tombstone set appears in the result of
\* mergeTasks or mergeCategories, whichever side contained it.
C9_TombstoneDominance ==
    mDone => /\ IdsOf(mTasks) \cap mDeleted = {}
             /\ IdsOf(mCategories) \cap mDeleted = {}

\* C9 witness: a merge has run on inputs where a tombstoned id is held by the
\* local side and a tombstoned id is held by the remote side only.
C9_Witness ==
    /\ mDone
    /\ \E i \in 1..Len(mLocal), j \in 1..Len(mRemote) :
           /\ mLocal[i].id \in mDeleted /\ mRemote[j].id = mLocal[i].id
           /\ SaveTime(mRemote[j]) > SaveTime(mLocal[i])
    /\ Len(mTasks) > 0 /\ Len(mCategories) > 0

\* the variant newer-wins selects among a local and a remote entity of one key
NewerOf(l, r) == IF SaveTime(r) > SaveTime(l) THEN r ELSE l

\* C10 as claimed: for a local and a remote entity under the same merge key,
\* the merged result contains the one with the later lastSave (missing
\* counting as 0), and the local one when the timestamps are equal.
C10_NewerWinsAsClaimed ==
    mDone =>
        \A i \in 1..Len(mLocal), j \in 1..Len(mRemote) :
            MergeKey(mLocal[i]) = MergeKey(mRemote[j]) =>
                /\ NewerOf(mLocal[i], mRemote[j]) \in SeqToSet(mTasks)
                /\ NewerOf(mLocal[i], mRemote[j]) \in SeqToSet(mCategories)

\* C10 amended: when each side holds exactly one entity under a merge key, the
\* merged result contains, of the two, the one with the later lastSave
\* (missing counting as 0; the local one on equal timestamps) and not the
\* other, unless the id of that newer variant is in the tombstone set, in
\* which case the result holds no entity under that key.
C10_NewerWins ==
    mDone =>
        \A i \in 1..Len(mLocal), j \in 1..Len(mRemote) :
            LET l == mLocal[i]
                r == mRemote[j]
                w == NewerOf(l, r)
                underKey(res) == {e \in SeqToSet(res) : MergeKey(e) = MergeKey(l)}
            IN (/\ MergeKey(l) = MergeKey(r)
                /\ OneUnderKey(mLocal, MergeKey(l))
                /\ OneUnderKey(mRemote, MergeKey(l))) =>
                   /\ underKey(mTasks) = IF w.id \in mDeleted THEN {} ELSE {w}
                   /\ underKey(mCategories) = IF w.id \in mDeleted THEN {} ELSE {w}

\* C10 witness: merges have run where a newer remote variant replaced the local
\* one, where an equal-timestamp pair differing in name kept the local one.
C10_Witness ==
    /\ mDone
    /\ Len(mLocal) = 2 /\ Len(mRemote) = 2
    /\ MergeKey(mLocal[1]) = MergeKey(mRemote[1])
    /\ MergeKey(mLocal[2]) = MergeKey(mRemote[2])
    /\ MergeKey(mLocal[1]) # MergeKey(mLocal[2])
    /\ SaveTime(mRemote[1]) > SaveTime(mLocal[1])
    /\ SaveTime(mRemote[2]) = SaveTime(mLocal[2])
    /\ mRemote[2].name # mLocal[2].name
    /\ mLocal[1].lastSave = Undefined
    /\ mDeleted = {}
    /\ SeqToSet(mTasks) = {mRemote[1], mLocal[2]}
    /\ SeqToSet(mCategories) = {mRemote[1], mLocal[2]}

\* C11 as claimed: merging a collection with itself returns the same set of
\* entities, for any collection and any tombstone set.
C11_IdempotentAsClaimed ==
    (mDone /\ mLocal = mRemote) =>
        /\ SeqToSet(mTasks) = SeqToSet(mLocal)
        /\ SeqToSet(mCategories) = SeqToSet(mLocal)

\* the entities of X with no tombstoned id whose merge key no other entry shares
SoleLiveEntities(X, tombstones) ==
    {X[i] : i \in {i \in 1..Len(X) : /\ X[i].id \notin tombstones
                                     /\ OneUnderKey(X, MergeKey(X[i]))}}

\* C11: merging a collection X with itself returns entities of X only, none
\* with a tombstoned id, and every entity of X that is not tombstoned and
\* shares its merge key with no other entry of X.
C11_Idempotent ==
    (mDone /\ mLocal = mRemote) =>
        /\ SeqToSet(mTasks) \subseteq SeqToSet(mLocal)
        /\ SeqToSet(mCategories) \subseteq SeqToSet(mLocal)
        /\ IdsOf(mTasks) \cap mDeleted = {}
        /\ IdsOf(mCategories) \cap mDeleted = {}
        /\ SoleLiveEntities(mLocal, mDeleted) \subseteq SeqToSet(mTasks)
        /\ SoleLiveEntities(mLocal, mDeleted) \subseteq SeqToSet(mCategories)

\* C11 witness: a two-entity collection with distinct keys was merged with
\* itself while one of its ids was tombstoned; the other entity is the result.
C11_Witness ==
    /\ mDone
    /\ mLocal = mRemote
    /\ Len(mLocal) = 2
    /\ MergeKey(mLocal[1]) # MergeKey(mLocal[2])
    /\ mDeleted = {mLocal[1].id}
    /\ mLocal[2].id # mLocal[1].id
    /\ mTasks = <<mLocal[2]>>
    /\ mCategories = <<mLocal[2]>>

\* both sides as one list, and: no two of its entries that share a merge key
\* have equal lastSave
BothSides == mLocal \o mRemote
NoTieUnderAKey ==
    \A i, j \in 1..Len(BothSides) :
        (i # j /\ MergeKey(BothSides[i]) = MergeKey(BothSides[j])) =>
            SaveTime(BothSides[i]) # SaveTime(BothSides[j])

\* C30 as claimed: when no two entities that share a merge key have equal
\* lastSave, merging local with remote and remote with local return the same
\* set of entities, for any tombstone set.
C30_OrderInsensitiveAsClaimed ==
    (mDone /\ NoTieUnderAKey) =>
        /\ SeqToSet(mTasks) = SeqToSet(mergeTasks(mRemote, mLocal, mDeleted))
        /\ SeqToSet(mCategories) =
               SeqToSet(mergeCategories(mRemote, mLocal, mDeleted))

\* no two entries of a side share a merge key
KeysUniqueOnSide(side) ==
    \A i, j \in 1..Len(side) : i # j => MergeKey(side[i]) # MergeKey(side[j])

\* C30 amended: when, besides, neither side holds a merge key twice, merging
\* local with remote and remote with local return the same set of entities,
\* for any tombstone set.
C30_OrderInsensitive ==
    (/\ mDone /\ NoTieUnderAKey
     /\ KeysUniqueOnSide(mLocal) /\ KeysUniqueOnSide(mRemote)) =>
        /\ SeqToSet(mTasks) = SeqToSet(mergeTasks(mRemote, mLocal, mDeleted))
        /\ SeqToSet(mCategories) =
               SeqToSet(mergeCategories(mRemote, mLocal, mDeleted))

\* C30 witness: both sides hold the same two keys with different timestamps,
\* one id is tombstoned, and the two directions return the same entity, the
\* newer variant of the other key.
C30_Witness ==
    /\ mDone
    /\ NoTieUnderAKey
    /\ Len(mLocal) = 2 /\ Len(mRemote) = 2
    /\ KeysUniqueOnSide(mLocal) /\ KeysUniqueOnSide(mRemote)
    /\ MergeKey(mLocal[1]) = MergeKey(mRemote[2])
    /\ MergeKey(mLocal[2]) = MergeKey(mRemote[1])
    /\ SaveTime(mRemote[1]) > SaveTime(mLocal[2])
    /\ mLocal[2].name # mRemote[1].name
    /\ mDeleted = {mLocal[1].id}
    /\ mTasks = <<mRemote[1]>>
    /\ mergeTasks(mRemote, mLocal, mDeleted) = <<mRemote[1]>>

\* no two entities of the collection have the same id
IdsUnique(entities) ==
    \A i, j \in 1..Len(entities) : i # j => entities[i].id # entities[j].id

\* C33: if the local collection and the remote collection each contain no
\* two entities with the same id, the merged result contains no two entities
\* with the same id, also when one side's copy of an entity has a numericId
\* and the other side's copy of the same id has none.
C33_MergedIdsUnique ==
    (mDone /\ IdsUnique(mLocal) /\ IdsUnique(mRemote))
    => (IdsUnique(mTasks) /\ IdsUnique(mCategories))

(***************************************************************************)
(* Two devices of one account syncing through the endpoint.                *)
(***************************************************************************)
\* both devices derive the same key pair from the same user id and password
DeviceKey == "k1"
SlotOf(d) == IF d = "A" THEN 1 ELSE 2

\* prepareTasks, prepareCategories: every entity gets lastSave = new Date()
prepareTasks(tasks, date) ==
    [i \in 1..Len(tasks) |-> [tasks[i] EXCEPT !.lastSave = date]]
prepareCategories(categories, date) ==
    [i \in 1..Len(categories) |-> [categories[i] EXCEPT !.lastSave = date]]

\* a syncData that posts the private key in place of the public key
syncDataWithPrivateKey(data, merged) ==
    [Request(FirstUid, DeviceKey, DeviceKey, data, merged)
        EXCEPT !.publicKey = PrivateKeyOf(DeviceKey)]
\* a syncData that drops the merged flag
syncDataNeverMerged(data, merged) ==
    Request(FirstUid, DeviceKey, DeviceKey, data, FALSE)
\* syncData(uid, publicKeyHash, publicKey, data, merged): the POST it sends
syncData(data, merged) == Request(FirstUid, DeviceKey, DeviceKey, data, merged)

\* sodium.from_base64 reads the URL-safe unpadded alphabet: a standard text is
\* accepted when its bytes happen to need no '+', '/' or '='
SharedAlphabet(bytes) == bytes.eph = "e1"
from_base64(text) == text.alphabet = "urlsafe" \/ SharedAlphabet(text.bytes)
\* client decryptData: whether it returns, and what it returns
Decrypts(encryptedBase64, k) ==
    /\ from_base64(encryptedBase64)
    /\ SealOpens(encryptedBase64.bytes, PublicKeyOf(k), PrivateKeyOf(k))
decryptData(encryptedBase64) == crypto_box_seal_open(encryptedBase64.bytes)

\* the tombstones the other devices have covered by a completed session
PeerDeleted(d) == UNION {ghost[o].syncedDeleted : o \in Devices \ {d}}

\* handleSync up to its first fetch: prepare the working copy and send it
StartSync(d) ==
    /\ sess[d].pc = "idle"
    /\ syncCount < MaxSyncs
    /\ \A o \in Devices : sess[o].pc = "idle"
    /\ syncCount' = syncCount + 1
    /\ LET localData == [tasks |-> prepareTasks(dev[d].tasks, now),
                         categories |-> prepareCategories(dev[d].categories, now)]
       IN HandlerEnter(SlotOf(d), syncData(localData, FALSE))
    /\ sess' = [sess EXCEPT ![d] =
                  [IdleSession EXCEPT !.pc = "phase1", !.state = "syncing",
                                      !.user = dev[d],
                                      !.peerDeleted = PeerDeleted(d)]]
    /\ UNCHANGED <<users, userData, reqCount, writes>>
    /\ UNCHANGED <<dev, now, opCount, ghost, mark>>

\* the catch block: the session ends, the working copy is as it was
SessionFailsTouchingUser(d) ==
    /\ sess' = [sess EXCEPT ![d] = [IdleSession EXCEPT !.state = "error"]]
    /\ dev' = [dev EXCEPT ![d].lastSyncedAt = now]
    /\ UNCHANGED <<ghost, mark>>
SessionFails(d) ==
    /\ sess' = [sess EXCEPT ![d] = [IdleSession EXCEPT !.state = "error"]]
    /\ UNCHANGED <<dev, ghost, mark>>

\* a commit that also empties the tombstone sets
SessionCommitsPurging(d, tasks, categories) ==
    /\ dev' = [dev EXCEPT ![d].tasks = tasks, ![d].categories = categories,
                          ![d].lastSyncedAt = now, ![d].deletedTasks = {},
                          ![d].deletedCategories = {}]
    /\ sess' = [sess EXCEPT ![d] = [IdleSession EXCEPT !.state = "success"]]
    /\ ghost' = [ghost EXCEPT
                   ![d].syncedDeleted = @ \cup sess[d].user.deletedTasks]
    /\ mark' = IF mark.set THEN [mark EXCEPT !.since = @ \cup {d}] ELSE mark
\* setUser(prev => ({...prev, tasks, categories, lastSyncedAt: new Date()}))
SessionCommits(d, tasks, categories) ==
    /\ dev' = [dev EXCEPT ![d].tasks = tasks, ![d].categories = categories,
                          ![d].lastSyncedAt = now]
    /\ sess' = [sess EXCEPT ![d] = [IdleSession EXCEPT !.state = "success"]]
    /\ ghost' = [ghost EXCEPT
                   ![d].syncedDeleted = @ \cup sess[d].user.deletedTasks]
    /\ mark' = IF mark.set THEN [mark EXCEPT !.since = @ \cup {d}] ELSE mark

\* handleSync from the first response to the second fetch or to its end
ReceivePhase1(d) ==
    LET s == SlotOf(d)
        response == req[s].resp
        user == sess[d].user
    IN
    /\ sess[d].pc = "phase1"
    /\ req[s].pc = "done"
    /\ IF response.status # 200
       THEN /\ SessionFails(d)
            /\ req' = [req EXCEPT ![s] = IdleReq]
            /\ UNCHANGED initializationPromise
       ELSE IF ~Decrypts(response.encryptedData, DeviceKey)
       THEN /\ SessionFails(d)
            /\ req' = [req EXCEPT ![s] = IdleReq]
            /\ UNCHANGED initializationPromise
       ELSE LET serverData == decryptData(response.encryptedData) IN
            IF response.needsMerge
            THEN LET mergedTasks ==
                         mergeTasks(user.tasks, serverData.tasks, user.deletedTasks)
                     mergedCategories ==
                         mergeCategories(user.categories, serverData.categories,
                                         user.deletedCategories)
                     mergedData ==
                         [tasks |-> prepareTasks(mergedTasks, now),
                          categories |-> prepareCategories(mergedCategories, now)]
                 IN /\ HandlerEnter(s, syncData(mergedData, TRUE))
                    /\ sess' = [sess EXCEPT ![d].pc = "phase2",
                                            ![d].mergedTasks = mergedTasks,
                                            ![d].mergedCategories = mergedCategories]
                    /\ UNCHANGED <<dev, ghost, mark>>
            ELSE /\ SessionCommits(d, serverData.tasks, serverData.categories)
                 /\ req' = [req EXCEPT ![s] = IdleReq]
                 /\ UNCHANGED initializationPromise
    /\ UNCHANGED <<users, userData, reqCount, writes>>
    /\ UNCHANGED <<now, opCount, syncCount>>

\* handleSync after the second response
ReceivePhase2(d) ==
    LET s == SlotOf(d) IN
    /\ sess[d].pc = "phase2"
    /\ req[s].pc = "done"
    /\ IF req[s].resp.status # 200
       THEN SessionFails(d)
       ELSE SessionCommits(d, sess[d].mergedTasks, sess[d].mergedCategories)
    /\ req' = [req EXCEPT ![s] = IdleReq]
    /\ UNCHANGED <<users, userData, initializationPromise, reqCount, writes>>
    /\ UNCHANGED <<now, opCount, syncCount>>

(***************************************************************************)
(* Local changes of the working copy (the task list screens).              *)
(***************************************************************************)
\* a new entity is given this name
NewName == "x"
LocalChangeAllowed == opCount < MaxOps /\ ~mark.set
\* ids are random: a new entity gets an id no device has used
FreshIds == Ids \ UNION {ghost[d].touched : d \in Devices}
Remove(seq, i) == SubSeq(seq, 1, i - 1) \o SubSeq(seq, i + 1, Len(seq))

AddTask(d) ==
    /\ LocalChangeAllowed
    /\ FreshIds # {}
    /\ LET id == CHOOSE id \in FreshIds : TRUE IN
         /\ dev' = [dev EXCEPT ![d].tasks =
                       Append(@, [id |-> id, numericId |-> Undefined,
                                  lastSave |-> now, name |-> NewName])]
         /\ ghost' = [ghost EXCEPT ![d].touched = @ \cup {id}]
    /\ opCount' = opCount + 1
    /\ UNCHANGED <<sess, now, syncCount, mark>>

EditTask(d, i, name) ==
    /\ LocalChangeAllowed
    /\ i \in 1..Len(dev[d].tasks)
    /\ dev[d].tasks[i].name # name
    /\ dev' = [dev EXCEPT ![d].tasks[i].name = name, ![d].tasks[i].lastSave = now]
    /\ ghost' = [ghost EXCEPT ![d].touched = @ \cup {dev[d].tasks[i].id}]
    /\ opCount' = opCount + 1
    /\ UNCHANGED <<sess, now, syncCount, mark>>

\* the entity leaves the list and its id enters the tombstone set
DeleteTask(d, i) ==
    /\ LocalChangeAllowed
    /\ i \in 1..Len(dev[d].tasks)
    /\ dev' = [dev EXCEPT ![d].tasks = Remove(@, i),
                          ![d].deletedTasks = @ \cup {dev[d].tasks[i].id}]
    /\ opCount' = opCount + 1
    /\ UNCHANGED <<sess, now, syncCount, ghost, mark>>

\* time passes
Tick ==
    /\ now < MaxClock
    /\ now' = now + 1
    /\ UNCHANGED <<dev, sess, opCount, syncCount, ghost, mark>>

\* the stored payload as the key holder reads it
StoredData ==
    IF getUserData(FirstUid).present
    THEN decryptData(getUserData(FirstUid).encrypted_data)
    ELSE [tasks |-> <<>>, categories |-> <<>>]
\* ids with their attributes other than lastSave
Attributes(entities) ==
    {[id |-> e.id, numericId |-> e.numericId, name |-> e.name] :
        e \in SeqToSet(entities)}
LocalView ==
    [d \in Devices |-> [tasks |-> SeqToSet(dev[d].tasks),
                        deletedTasks |-> dev[d].deletedTasks]]
Quiescent == \A d \in Devices : sess[d].pc = "idle"
\* every stored entity was stamped later than any entity a device holds
StoredIsLater ==
    \A e \in SeqToSet(StoredData.tasks), d \in Devices :
        \A l \in SeqToSet(dev[d].tasks) : SaveTime(e) > SaveTime(l)

\* from here on the devices make no local change; what they and the server
\* hold at this moment is noted, and then which devices complete a session
Settle ==
    /\ ~mark.set
    /\ Quiescent
    /\ mark' = [set |-> TRUE, local |-> LocalView,
                stored |-> Attributes(StoredData.tasks),
                later |-> StoredIsLater,
                since |-> {}]
    /\ UNCHANGED <<dev, sess, now, opCount, syncCount, ghost>>

Init == InitServerVars /\ InitMergeIdle /\ InitClient /\ InitLibIdle

Next ==
    \/ \E d \in Devices : (StartSync(d) /\ UNCHANGED <<mergeVars, libVars, autoVars>>)
    \/ \E d \in Devices : (ReceivePhase1(d) /\ UNCHANGED <<mergeVars, libVars, autoVars>>)
    \/ \E d \in Devices : (ReceivePhase2(d) /\ UNCHANGED <<mergeVars, libVars, autoVars>>)
    \/ \E d \in Devices : (AddTask(d) /\ UNCHANGED <<mergeVars, libVars, serverVars, autoVars>>)
    \/ \E d \in Devices, i \in 1..MaxLen, name \in Names :
          (EditTask(d, i, name) /\ UNCHANGED <<mergeVars, libVars, serverVars, autoVars>>)
    \/ \E d \in Devices, i \in 1..MaxLen :
          (DeleteTask(d, i) /\ UNCHANGED <<mergeVars, libVars, serverVars, autoVars>>)
    \/ (Tick /\ UNCHANGED <<mergeVars, libVars, serverVars, autoVars>>)
    \/ (Settle /\ UNCHANGED <<mergeVars, libVars, serverVars, autoVars>>)
    \/ (InitSucceeds /\ UNCHANGED <<mergeVars, libVars, clientVars, autoVars>>)
    \/ (InitFails /\ UNCHANGED <<mergeVars, libVars, clientVars, autoVars>>)
    \/ \E s \in Slots : (Validate(s) /\ UNCHANGED <<mergeVars, libVars, clientVars, autoVars>>)
    \/ \E s \in Slots : (GetUser(s) /\ UNCHANGED <<mergeVars, libVars, clientVars, autoVars>>)
    \/ \E s \in Slots : (CreateUser(s) /\ UNCHANGED <<mergeVars, libVars, clientVars, autoVars>>)
    \/ \E s \in Slots : (GetUserAgain(s) /\ UNCHANGED <<mergeVars, libVars, clientVars, autoVars>>)
    \/ \E s \in Slots : (GetUserData(s) /\ UNCHANGED <<mergeVars, libVars, clientVars, autoVars>>)
    \/ \E s \in Slots : (SaveUserData(s) /\ UNCHANGED <<mergeVars, libVars, clientVars, autoVars>>)

Spec == Init /\ [][Next]_vars

(***************************************************************************)
(* autoSync.ts: the debounced automatic sync of a device.                  *)
(***************************************************************************)
\* the slot the automatic session of a device sends its requests through
AutoSlotOf(d) == IF d = "A" THEN 2 ELSE 1

\* JSON.stringify({tasks: [{id, lastSave}], categories: [{id, lastSave}]})
DataHash(tasks, categories) ==
    [tasks |-> [i \in 1..Len(tasks) |->
                   [id |-> tasks[i].id, lastSave |-> tasks[i].lastSave]],
     categories |-> [i \in 1..Len(categories) |->
                   [id |-> categories[i].id, lastSave |-> categories[i].lastSave]]]

\* an autoSync without the fingerprint check
autoSyncUnchecked(a, user) ==
    IF ~a.credentials THEN a
    ELSE IF a.isSyncing THEN a
    ELSE [a EXCEPT !.syncTimeout =
             [set |-> TRUE, user |-> user,
              currentDataHash |-> DataHash(user.tasks, user.categories)]]
\* autoSync(user, setUser) up to setTimeout: the module state after the call
autoSync(a, user) ==
    IF ~a.credentials THEN a
    ELSE IF DataHash(user.tasks, user.categories) = a.lastSyncedData THEN a
    ELSE IF a.isSyncing THEN a
    ELSE [a EXCEPT !.syncTimeout =
             [set |-> TRUE, user |-> user,
              currentDataHash |-> DataHash(user.tasks, user.categories)]]

\* UserProvider's effect on [user.tasks, user.categories] after a local change
UserEffect(d) == auto' = [auto EXCEPT ![d] = autoSync(auto[d], dev'[d])]

\* an end of handleSync that stores the credentials whether or not the
\* session succeeded
ManualSyncEffectAlways(d) ==
    auto' = IF sess[d].pc # "idle" /\ sess'[d].pc = "idle"
            THEN [auto EXCEPT ![d] =
                     autoSync([auto[d] EXCEPT !.credentials = TRUE], dev'[d])]
            ELSE auto
\* the end of handleSync: a committed session stores the credentials, and the
\* effect runs on the tasks it has set
ManualSyncEffect(d) ==
    auto' = IF sess[d].pc # "idle" /\ sess'[d].state = "success"
            THEN [auto EXCEPT ![d] =
                     autoSync([auto[d] EXCEPT !.credentials = TRUE], dev'[d])]
            ELSE auto

\* the timer fires: isSyncing = true, prepare the closed-over user, send it
TimerFires(d) ==
    LET timer == auto[d].syncTimeout IN
    /\ timer.set
    /\ syncCount < MaxSyncs
    /\ syncCount' = syncCount + 1
    /\ LET localData ==
             [tasks |-> prepareTasks(timer.user.tasks, now),
              categories |-> prepareCategories(timer.user.categories, now)]
       IN HandlerEnter(AutoSlotOf(d), syncData(localData, FALSE))
    /\ auto' = [auto EXCEPT ![d].isSyncing = TRUE, ![d].syncTimeout = NoTimer,
                            ![d].pc = "phase1", ![d].user = timer.user,
                            ![d].currentDataHash = timer.currentDataHash,
                            ![d].log = "Auto-syncing..."]
    /\ UNCHANGED <<users, userData, reqCount, writes>>
    /\ UNCHANGED <<dev, sess, now, opCount, ghost, mark>>

\* catch (silent) and finally: isSyncing = false
AutoEnds(a) ==
    [a EXCEPT !.isSyncing = FALSE, !.pc = "idle", !.user = defaultUser,
              !.currentDataHash = Null, !.mergedTasks = <<>>,
              !.mergedCategories = <<>>]

\* a catch block that is not followed by the finally block
AutoFailsBusy(a) ==
    [AutoEnds(a) EXCEPT !.log = "Auto-sync error", !.isSyncing = TRUE]
\* catch: the error is logged, the user's state is not touched
AutoFails(a) ==
    [AutoEnds(a) EXCEPT !.log = "Auto-sync error"]
\* the end of the try block
AutoCompletes(a) ==
    [AutoEnds(a) EXCEPT !.log = "Auto-sync completed"]

\* the callback from the first response to the second fetch or to its end
AutoReceivePhase1(d) ==
    LET s == AutoSlotOf(d)
        response == req[s].resp
        user == auto[d].user
    IN
    /\ auto[d].pc = "phase1"
    /\ req[s].pc = "done"
    /\ IF response.status # 200
       THEN /\ auto' = [auto EXCEPT ![d] = AutoFails(auto[d])]
            /\ req' = [req EXCEPT ![s] = IdleReq]
            /\ UNCHANGED <<initializationPromise, dev, ghost>>
       ELSE IF ~Decrypts(response.encryptedData, DeviceKey)
       THEN /\ auto' = [auto EXCEPT ![d] = AutoFails(auto[d])]
            /\ req' = [req EXCEPT ![s] = IdleReq]
            /\ UNCHANGED <<initializationPromise, dev, ghost>>
       ELSE LET serverData == decryptData(response.encryptedData) IN
            IF response.needsMerge
            THEN LET mergedTasks ==
                         mergeTasks(user.tasks, serverData.tasks, user.deletedTasks)
                     mergedCategories ==
                         mergeCategories(user.categories, serverData.categories,
                                         user.deletedCategories)
                     mergedData ==
                         [tasks |-> prepareTasks(mergedTasks, now),
                          categories |-> prepareCategories(mergedCategories, now)]
                 IN /\ HandlerEnter(s, syncData(mergedData, TRUE))
                    /\ auto' = [auto EXCEPT ![d].pc = "phase2",
                                            ![d].mergedTasks = mergedTasks,
                                            ![d].mergedCategories = mergedCategories]
                    /\ UNCHANGED <<dev, ghost>>
            ELSE /\ dev' = [dev EXCEPT ![d].lastSyncedAt = now]
                 /\ auto' = [auto EXCEPT ![d] =
                       AutoCompletes([auto[d] EXCEPT
                                    !.lastSyncedData = auto[d].currentDataHash])]
                 /\ ghost' = [ghost EXCEPT
                                ![d].syncedDeleted = @ \cup user.deletedTasks]
                 /\ req' = [req EXCEPT ![s] = IdleReq]
                 /\ UNCHANGED initializationPromise
    /\ UNCHANGED <<users, userData, reqCount, writes>>
    /\ UNCHANGED <<sess, now, opCount, syncCount, mark>>

\* the callback after the second response: lastSyncedData, setUser, and the
\* effect that runs on the tasks it has set
AutoReceivePhase2(d) ==
    LET s == AutoSlotOf(d)
        a == auto[d]
    IN
    /\ a.pc = "phase2"
    /\ req[s].pc = "done"
    /\ IF req[s].resp.status # 200
       THEN /\ auto' = [auto EXCEPT ![d] = AutoFails(a)]
            /\ UNCHANGED <<dev, ghost>>
       ELSE /\ dev' = [dev EXCEPT ![d].tasks = a.mergedTasks,
                                  ![d].categories = a.mergedCategories,
                                  ![d].lastSyncedAt = now]
            /\ ghost' = [ghost EXCEPT
                           ![d].syncedDeleted = @ \cup a.user.deletedTasks]
            /\ auto' = [auto EXCEPT ![d] =
                  autoSync(AutoCompletes([a EXCEPT !.lastSyncedData =
                                DataHash(a.mergedTasks, a.mergedCategories)]),
                           dev'[d])]
    /\ req' = [req EXCEPT ![s] = IdleReq]
    /\ UNCHANGED <<users, userData, initializationPromise, reqCount, writes>>
    /\ UNCHANGED <<sess, now, opCount, syncCount, mark>>

(***************************************************************************)
(* SpecClient: one device with its manual and its automatic sync.          *)
(***************************************************************************)
ClientDevice == "A"

\* fetch rejects (the response never arrives): syncData rethrows, handleSync
\* catches
FetchFails(d) ==
    /\ sess[d].pc \in {"phase1", "phase2"}
    /\ req[SlotOf(d)].pc = "done"
    /\ SessionFails(d)
    /\ req' = [req EXCEPT ![SlotOf(d)] = IdleReq]
    /\ UNCHANGED <<users, userData, initializationPromise, reqCount, writes>>
    /\ UNCHANGED <<now, opCount, syncCount>>

\* the same in the timer callback of autoSync: the catch block
AutoFetchFails(d) ==
    /\ auto[d].pc \in {"phase1", "phase2"}
    /\ req[AutoSlotOf(d)].pc = "done"
    /\ auto' = [auto EXCEPT ![d] = AutoFails(auto[d])]
    /\ req' = [req EXCEPT ![AutoSlotOf(d)] = IdleReq]
    /\ UNCHANGED <<users, userData, initializationPromise, reqCount, writes>>
    /\ UNCHANGED clientVars

NextClient ==
    \/ (StartSync(ClientDevice) /\ UNCHANGED <<mergeVars, libVars, autoVars>>)
    \/ (ReceivePhase1(ClientDevice) /\ ManualSyncEffect(ClientDevice)
            /\ UNCHANGED <<mergeVars, libVars>>)
    \/ (ReceivePhase2(ClientDevice) /\ ManualSyncEffect(ClientDevice)
            /\ UNCHANGED <<mergeVars, libVars>>)
    \/ (AddTask(ClientDevice) /\ UserEffect(ClientDevice)
            /\ UNCHANGED <<mergeVars, libVars, serverVars>>)
    \/ \E i \in 1..MaxLen, name \in Names :
          (EditTask(ClientDevice, i, name) /\ UserEffect(ClientDevice)
              /\ UNCHANGED <<mergeVars, libVars, serverVars>>)
    \/ \E i \in 1..MaxLen :
          (DeleteTask(ClientDevice, i) /\ UserEffect(ClientDevice)
              /\ UNCHANGED <<mergeVars, libVars, serverVars>>)
    \/ (Tick /\ UNCHANGED <<mergeVars, libVars, serverVars, autoVars>>)
    \/ (TimerFires(ClientDevice) /\ UNCHANGED <<mergeVars, libVars>>)
    \/ (AutoReceivePhase1(ClientDevice) /\ UNCHANGED <<mergeVars, libVars>>)
    \/ (AutoReceivePhase2(ClientDevice) /\ UNCHANGED <<mergeVars, libVars>>)
    \/ (FetchFails(ClientDevice) /\ UNCHANGED <<mergeVars, libVars, autoVars>>)
    \/ (AutoFetchFails(ClientDevice) /\ UNCHANGED <<mergeVars, libVars>>)
    \/ (InitSucceeds /\ UNCHANGED <<mergeVars, libVars, clientVars, autoVars>>)
    \/ (InitFails /\ UNCHANGED <<mergeVars, libVars, clientVars, autoVars>>)
    \/ \E s \in Slots : (Validate(s) /\ UNCHANGED <<mergeVars, libVars, clientVars, autoVars>>)
    \/ \E s \in Slots : (GetUser(s) /\ UNCHANGED <<mergeVars, libVars, clientVars, autoVars>>)
    \/ \E s \in Slots : (CreateUser(s) /\ UNCHANGED <<mergeVars, libVars, clientVars, autoVars>>)
    \/ \E s \in Slots :
          (GetUserAgain(s) /\ UNCHANGED <<mergeVars, libVars, clientVars, autoVars>>)
    \/ \E s \in Slots :
          (GetUserData(s) /\ UNCHANGED <<mergeVars, libVars, clientVars, autoVars>>)
    \/ \E s \in Slots :
          (SaveUserData(s) /\ UNCHANGED <<mergeVars, libVars, clientVars, autoVars>>)

SpecClient == Init /\ [][NextClient]_vars

(***************************************************************************)
(* SpecLogin: the device of SpecClient against a store in which its user id *)
(* is either unknown or registered under another key (the password typed on *)
(* the device is not the one the id was registered with).                   *)
(***************************************************************************)
OtherKey == "k2"
\* the rows of an identity registered with OtherKey and its stored record
RegisteredElsewhere ==
    [present |-> TRUE, uid |-> FirstUid,
     public_key_hash |-> sha256(PublicKeyOf(OtherKey)),
     public_key |-> PublicKeyOf(OtherKey)]
StoredElsewhere ==
    [present |-> TRUE, uid |-> FirstUid,
     encrypted_data |-> encryptData([tasks |-> <<>>, categories |-> <<>>],
                                    PublicKeyOf(OtherKey), "e1"),
     version |-> 1]

InitLogin ==
    /\ InitMergeIdle
    /\ InitClient
    /\ InitLibIdle
    /\ \E registered \in BOOLEAN :
          /\ users = IF registered THEN {RegisteredElsewhere} ELSE {}
          /\ userData = IF registered THEN {StoredElsewhere} ELSE {}
          /\ writes = [uid \in Uids |->
                         IF registered /\ uid = FirstUid THEN 1 ELSE 0]
    /\ initializationPromise = "null"
    /\ req = [s \in Slots |-> IdleReq]
    /\ reqCount = 0

SpecLogin == InitLogin /\ [][NextClient]_vars

\* handleLogout: the four credentials leave localStorage and the screen is
\* reset; the button is disabled while the screen shows "syncing"
Logout(d) ==
    /\ auto[d].credentials
    /\ sess[d].pc = "idle"
    /\ auto' = [auto EXCEPT ![d].credentials = FALSE]
    /\ sess' = [sess EXCEPT ![d].state = "idle"]
    /\ UNCHANGED <<dev, now, opCount, syncCount, ghost, mark>>

(***************************************************************************)
(* SpecSession: a device that already holds sync credentials and a working *)
(* copy, with a change waiting in the timer of autoSync, against a store    *)
(* that holds nothing for its user id.                                      *)
(***************************************************************************)
InitSession ==
    /\ InitServerVars
    /\ InitMergeIdle
    /\ InitLibIdle
    /\ \E tasks \in Collections(1), deleted \in SUBSET Ids :
          dev = [d \in Devices |->
                   IF d = ClientDevice
                   THEN [defaultUser EXCEPT !.tasks = tasks,
                                            !.deletedTasks = deleted \ IdsOf(tasks)]
                   ELSE defaultUser]
    /\ sess = [d \in Devices |-> IdleSession]
    /\ now \in 1..MaxClock
    /\ opCount = 0
    /\ syncCount = 0
    /\ ghost = [d \in Devices |-> NoHistory]
    /\ mark = NoMark
    /\ auto = [d \in Devices |->
                 IF d = ClientDevice
                 THEN autoSync([IdleAuto EXCEPT !.credentials = TRUE], dev[d])
                 ELSE IdleAuto]

NextSession ==
    \/ (StartSync(ClientDevice) /\ UNCHANGED <<mergeVars, libVars, autoVars>>)
    \/ (ReceivePhase1(ClientDevice) /\ ManualSyncEffect(ClientDevice)
            /\ UNCHANGED <<mergeVars, libVars>>)
    \/ (ReceivePhase2(ClientDevice) /\ ManualSyncEffect(ClientDevice)
            /\ UNCHANGED <<mergeVars, libVars>>)
    \/ (TimerFires(ClientDevice) /\ UNCHANGED <<mergeVars, libVars>>)
    \/ (AutoReceivePhase1(ClientDevice) /\ UNCHANGED <<mergeVars, libVars>>)
    \/ (AutoReceivePhase2(ClientDevice) /\ UNCHANGED <<mergeVars, libVars>>)
    \/ (Logout(ClientDevice) /\ UNCHANGED <<mergeVars, libVars, serverVars>>)
    \/ (InitSucceeds /\ UNCHANGED <<mergeVars, libVars, clientVars, autoVars>>)
    \/ \E s \in Slots : (Validate(s) /\ UNCHANGED <<mergeVars, libVars, clientVars, autoVars>>)
    \/ \E s \in Slots : (GetUser(s) /\ UNCHANGED <<mergeVars, libVars, clientVars, autoVars>>)
    \/ \E s \in Slots : (CreateUser(s) /\ UNCHANGED <<mergeVars, libVars, clientVars, autoVars>>)
    \/ \E s \in Slots :
          (GetUserAgain(s) /\ UNCHANGED <<mergeVars, libVars, clientVars, autoVars>>)
    \/ \E s \in Slots :
          (GetUserData(s) /\ UNCHANGED <<mergeVars, libVars, clientVars, autoVars>>)
    \/ \E s \in Slots :
          (SaveUserData(s) /\ UNCHANGED <<mergeVars, libVars, clientVars, autoVars>>)

SpecSession == InitSession /\ [][NextSession]_vars

(***************************************************************************)
(* SpecKeys: key derivation, the id counters and the sealed box on drawn    *)
(* inputs (crypto.ts of the client and of the server).                      *)
(***************************************************************************)
UserIds == {"u1", " u1", "u2"}
Passwords == {"p1", "p2"}
\* String.prototype.trim
trim(text) == IF text = " u1" THEN "u1" ELSE text

\* a salt that changes from one derivation to the next
saltPerCall(userId) == <<userId, Len(lib.derived)>>
\* const salt = encoder.encode(userId)
salt(userId) == userId
\* crypto.subtle.deriveBits(PBKDF2, salt, 600000 iterations, SHA-256), as hex
deriveBits(password, saltBytes) == [pbkdf2 |-> password, salt |-> saltBytes]
deriveKeyFromPassword(userId, password) == deriveBits(password, salt(userId))
\* sodium.crypto_box_seed_keypair(seedBytes), both keys as hex
generateKeyPairFromSeed(seedHex) ==
    [publicKey |-> PublicKeyOf(seedHex), privateKey |-> PrivateKeyOf(seedHex)]

\* handleSync without stored credentials: seed, key pair and publicKeyHash
Derive ==
    /\ Len(lib.derived) < MaxDerivations
    /\ LET seed == deriveKeyFromPassword(trim(lib.userId), lib.password)
           keys == generateKeyPairFromSeed(seed)
       IN lib' = [lib EXCEPT !.derived =
                     Append(@, [seed |-> seed, publicKey |-> keys.publicKey,
                                privateKey |-> keys.privateKey,
                                publicKeyHash |-> sha256(keys.publicKey)])]

\* the largest id getNextNumericId hands out
IdCounterLimit == 65535
EntityTypes == {"task", "category"}
\* parseInt(localStorage.getItem(key) || "0", 10)
currentId(type) ==
    IF type = "task" THEN lib.taskIdCounter ELSE lib.categoryIdCounter
\* a range check that never throws
NeverExceeds(nextId) == FALSE
\* nextId > 65535
ExceedsRange(nextId) == nextId > IdCounterLimit
getNextNumericId(type) ==
    /\ lib.calls < MaxCalls
    /\ LET nextId == currentId(type) + 1 IN
       IF ExceedsRange(nextId)
       THEN lib' = [lib EXCEPT !.calls = @ + 1,
                               !.returned = [called |-> TRUE, type |-> type,
                                             thrown |-> TRUE, value |-> Undefined]]
       ELSE lib' = [lib EXCEPT !.calls = @ + 1,
                               !.taskIdCounter =
                                   IF type = "task" THEN nextId ELSE @,
                               !.categoryIdCounter =
                                   IF type = "category" THEN nextId ELSE @,
                               !.returned = [called |-> TRUE, type |-> type,
                                             thrown |-> FALSE, value |-> nextId]]

\* the server seals a payload to a public key: encryptData
Encrypt ==
    /\ lib.sealed = Missing
    /\ \E data \in EnvPayloads, k \in KeyPairs, eph \in Ephemerals :
          lib' = [lib EXCEPT !.plaintext = data,
                             !.sealed = encryptData(data, PublicKeyOf(k), eph)]

\* client decryptData(encryptedBase64, publicKeyHex, privateKeyHex): it throws
\* when the text is not base64 of its alphabet or the box does not open
DecryptsWith(encryptedBase64, publicKey, privateKey) ==
    /\ from_base64(encryptedBase64)
    /\ SealOpens(encryptedBase64.bytes, publicKey, privateKey)

\* the timer callback reads a response: decryptData inside try, then catch
DecryptResponse ==
    /\ lib.sealed # Missing
    /\ lib.opened = Missing
    /\ \E pk, sk \in KeyPairs :
          lib' = [lib EXCEPT !.opened =
                     IF DecryptsWith(lib.sealed, PublicKeyOf(pk), PrivateKeyOf(sk))
                     THEN [publicKey |-> PublicKeyOf(pk),
                           privateKey |-> PrivateKeyOf(sk),
                           log |-> "Auto-sync completed",
                           serverData |-> decryptData(lib.sealed)]
                     ELSE [publicKey |-> PublicKeyOf(pk),
                           privateKey |-> PrivateKeyOf(sk),
                           log |-> "Auto-sync error",
                           serverData |-> Missing]]

InitKeys ==
    /\ InitServerVars
    /\ InitMergeIdle
    /\ InitClient
    /\ \E userId \in UserIds, password \in Passwords,
          tasks, categories \in {0, IdCounterLimit - 1, IdCounterLimit} :
          lib = [IdleLib EXCEPT !.userId = userId, !.password = password,
                                !.taskIdCounter = tasks,
                                !.categoryIdCounter = categories]

NextKeys ==
    \/ (Derive /\ UNCHANGED <<mergeVars, serverVars, clientVars, autoVars>>)
    \/ \E type \in EntityTypes :
          (getNextNumericId(type)
              /\ UNCHANGED <<mergeVars, serverVars, clientVars, autoVars>>)
    \/ (Encrypt /\ UNCHANGED <<mergeVars, serverVars, clientVars, autoVars>>)
    \/ (DecryptResponse /\ UNCHANGED <<mergeVars, serverVars, clientVars, autoVars>>)

SpecKeys == InitKeys /\ [][NextKeys]_vars

(***************************************************************************)
(* Claims about two devices syncing (checked under Spec).                  *)
(***************************************************************************)
\* this step ends a session of device d with its result committed
Committed(d) == sess[d].pc # "idle" /\ sess'[d].state = "success"

\* C6: when a device completes a sync session that began after another device
\* had deleted an entity and completed a session of its own, and the first
\* device held that entity at the start without ever having added or edited
\* it, the entity is afterwards absent from that device's tasks and from the
\* payload stored on the server.
C6_DeletionPropagates ==
    [][\A d \in Devices, id \in Ids :
         (/\ Committed(d)
          /\ id \in sess[d].peerDeleted
          /\ id \in IdsOf(sess[d].user.tasks)
          /\ id \notin ghost[d].touched)
         => /\ id \notin IdsOf(dev'[d].tasks)
            /\ id \notin IdsOf(StoredData.tasks)']_vars

\* both devices and the server hold the same ids with the same attributes
\* other than lastSave
Agree ==
    \A d \in Devices : Attributes(dev[d].tasks) = Attributes(StoredData.tasks)

\* C7: once the devices make no further local changes, sync sessions that run
\* one after the other do not bring the system back, after a completed session
\* of each device, to a state in which the devices and the server disagree:
\* a disagreeing state that recurs is never left for an agreeing one.  The
\* state compared is what each device holds (entities and tombstones) and the
\* ids and attributes stored, where the stored entities carry later timestamps
\* than the devices' (no outcome rests on two equal timestamps).
C7_Convergence ==
    (/\ mark.set
     /\ Quiescent
     /\ mark.since = Devices
     /\ LocalView = mark.local
     /\ Attributes(StoredData.tasks) = mark.stored
     /\ mark.later /\ StoredIsLater)
    => Agree

\* the entity was added or edited on device d and on no other device, and no
\* device has deleted it
OnlyEditedOn(d, id) ==
    /\ id \in ghost[d].touched
    /\ \A o \in Devices \ {d} : id \notin ghost[o].touched
    /\ \A o \in Devices : id \notin dev[o].deletedTasks
\* the collection holds the entity's variant e (its id with its attributes)
HoldsVariant(tasks, e) ==
    \E k \in SeqToSet(tasks) : k.id = e.id /\ k.name = e.name

\* C32: a genuine edit is never overwritten by an unedited copy: when a
\* device completes a sync session that it began holding an entity only it
\* has added or edited, the device and the server afterwards hold that
\* variant of the entity, whatever sessions the other devices completed in
\* between and although every session re-stamps lastSave of what it sends.
C32_EditNotOverwritten ==
    [][\A d \in Devices : \A e \in SeqToSet(sess[d].user.tasks) :
         (Committed(d) /\ OnlyEditedOn(d, e.id) /\ HoldsVariant(dev[d].tasks, e))
         => /\ HoldsVariant(dev'[d].tasks, e)
            /\ HoldsVariant(StoredData.tasks, e)]_vars

(***************************************************************************)
(* Claims about authentication and initialization (checked under           *)
(* SpecServer).                                                            *)
(***************************************************************************)
AuthError == ErrorResp(403, "Invalid user ID or password")
HashValid(r) == validatePublicKeyHash(r.publicKey, r.publicKeyHash)
\* the request arrived for a known user id with another hash than the stored
ArrivedMismatching(r) ==
    /\ WellFormed(r)
    /\ r.atArrival.user.present
    /\ r.atArrival.user.public_key_hash # r.publicKeyHash

\* C16: a request with all fields whose publicKeyHash is not the digest of its
\* publicKey ends with the generic authentication error (403) and nothing
\* else, without having waited for or used the store.
C16_BadHashRejectedFirst ==
    \A s \in Slots :
        (WellFormed(req[s]) /\ ~HashValid(req[s])) =>
            /\ req[s].pc \in {"validate", "done"}
            /\ req[s].pc = "done" => req[s].resp = AuthError

\* C17: a request for a known user id whose publicKeyHash differs from the
\* stored one ends with the authentication error 403 and changes neither the
\* table users nor the table user_data; no row of users is ever changed or
\* removed.
C17_IdentityImmutable ==
    [][/\ \A s \in Slots :
            (/\ InHandler(req[s])
             /\ ArrivedMismatching(req[s])
             /\ req'[s] # req[s]) =>
                /\ users' = users
                /\ userData' = userData
                /\ ~req'[s].wrote
                /\ req'[s].pc = "done" => req'[s].resp = AuthError
       /\ \A row \in users :
            /\ row \in users'
            /\ getUser(row.uid)' = row]_vars

\* C17 witness: a request with a valid hash of another key has been answered
\* 403 for a user id that has an identity and a stored record.
C17_Witness ==
    \E s \in Slots :
        /\ req[s].pc = "done"
        /\ ArrivedMismatching(req[s]) /\ HashValid(req[s])
        /\ req[s].resp = AuthError
        /\ getUserData(req[s].uid).present
        /\ getUser(req[s].uid).public_key_hash # req[s].publicKeyHash

\* C18: two answered requests with the same valid key, one for a user id that
\* was unknown when it arrived and one for a user id that was known under
\* another key, get the same status (internal errors aside).
C18_NoEnumeration ==
    \A s, t \in Slots :
        (/\ req[s].pc = "done" /\ req[t].pc = "done"
         /\ WellFormed(req[s]) /\ HashValid(req[s])
         /\ WellFormed(req[t]) /\ HashValid(req[t])
         /\ req[s].publicKey = req[t].publicKey
         /\ ~req[s].atArrival.user.present
         /\ ArrivedMismatching(req[t])
         /\ req[s].resp.status # 500 /\ req[t].resp.status # 500) =>
            req[s].resp.status = req[t].resp.status

\* a request awaits the initialization attempt
Awaiting(s) == req[s].pc = "init"
\* C19: every request that awaits initialization awaits the one attempt in
\* progress; when the attempt fails every awaiting request ends with 500 and
\* the guard is reset; a POST that arrives while the guard is reset starts an
\* attempt; once an attempt has succeeded the guard never changes again.
C19_InitializationRaceSafe ==
    /\ [](\A s \in Slots : Awaiting(s) => initializationPromise = "pending")
    /\ [][/\ (\E s \in Slots : Awaiting(s) /\ req'[s].pc = "done") =>
               /\ initializationPromise' = "null"
               /\ \A s \in Slots :
                    Awaiting(s) => /\ req'[s].pc = "done"
                                   /\ req'[s].resp.status = 500
          /\ (initializationPromise = "pending"
                /\ initializationPromise' # "pending") =>
               \A s \in Slots : ~Awaiting(s)'
          /\ \A s \in Slots :
               (initializationPromise = "null" /\ req[s].pc = "idle"
                  /\ req'[s].pc # "idle" /\ req'[s].method = "POST") =>
                   /\ initializationPromise' = "pending"
                   /\ Awaiting(s)'
          /\ initializationPromise = "fulfilled" =>
               initializationPromise' = "fulfilled"]_vars

\* C19 witness: two concurrent requests have ended with the 500 of the one
\* failed attempt, one of them has been collected, and a third request has
\* started a fresh attempt.
C19_Witness ==
    \E s, t \in Slots :
        /\ s # t
        /\ req[s].pc = "done" /\ req[s].resp.status = 500
        /\ Awaiting(t)
        /\ initializationPromise = "pending"
        /\ reqCount = 3
        /\ users = {}

\* the required fields a request lacks
MissingFields(r) ==
    {f \in {"uid", "publicKeyHash", "publicKey", "data"} : r[f] = Missing}

\* C21: a POST request that lacks the uid, publicKeyHash, publicKey or data
\* ends with status 400 and nothing else, without having waited for or used
\* the store, and two such requests that lack different fields get different
\* error messages.
C21_MissingFieldRejectedFirst ==
    /\ \A s \in Slots :
         (req[s].method = "POST" /\ MissingFields(req[s]) # {}) =>
             /\ req[s].pc \in {"validate", "done"}
             /\ req[s].pc = "done" => req[s].resp.status = 400
    /\ \A s, t \in Slots :
         (/\ req[s].pc = "done" /\ req[t].pc = "done"
          /\ req[s].method = "POST" /\ req[t].method = "POST"
          /\ MissingFields(req[s]) # {} /\ MissingFields(req[t]) # {}
          /\ MissingFields(req[s]) # MissingFields(req[t])
          /\ req[s].resp.status = 400 /\ req[t].resp.status = 400) =>
             req[s].resp.error # req[t].resp.error

FirstSync(r) ==
    /\ r.pc # "idle"
    /\ WellFormed(r)
    /\ validatePublicKeyHash(r.publicKey, r.publicKeyHash)
    /\ ~r.atArrival.user.present
    /\ r.pc = "done" => r.resp # ErrorResp(500, "Failed to connect to database")

\* C34: when two valid requests with the same key for the same previously
\* unknown user id are handled concurrently, exactly one identity record is
\* created for that id, neither request ends with an internal error, and
\* once both have ended the store holds a data record for the id.
C34_ConcurrentFirstSyncs ==
    \A s, t \in Slots :
        (/\ s # t
         /\ FirstSync(req[s]) /\ FirstSync(req[t])
         /\ req[s].uid = req[t].uid
         /\ req[s].publicKey = req[t].publicKey
         /\ req[s].pc = "done") =>
            /\ req[s].resp.status # 500
            /\ Cardinality({row \in users : row.uid = req[s].uid}) = 1
            /\ req[t].pc = "done" => getUserData(req[s].uid).present

\* this step is the write of the request in slot s: the row of its user id is
\* replaced and no other row changes
WritesOwnRow(s) ==
    /\ req[s].pc = "save" /\ req'[s].pc = "done" /\ req'[s].wrote
    /\ {row \in userData' : row.uid # req[s].uid}
          = {row \in userData : row.uid # req[s].uid}
\* the request in slot s carries the hash of its key, which is the hash
\* stored for its user id
Authenticated(r) ==
    /\ sha256(r.publicKey) = r.publicKeyHash
    /\ getUser(r.uid).present
    /\ getUser(r.uid).public_key_hash = r.publicKeyHash

\* C38: a data record is written only by a request whose publicKeyHash is
\* both SHA256(publicKey) and the hash stored for the identity; every stored
\* ciphertext is sealed to the registered public key of its identity; and a
\* request answered 400, 403 or 405 has written nothing.
C38_OnlyAuthenticatedWrites ==
    /\ [](/\ \A row \in userData :
                /\ getUser(row.uid).present
                /\ row.encrypted_data.bytes.to = getUser(row.uid).public_key
          /\ \A s \in Slots :
                (req[s].pc = "done" /\ req[s].resp.status \in {400, 403, 405})
                    => ~req[s].wrote)
    /\ [][userData' # userData =>
             \E s \in Slots : WritesOwnRow(s) /\ Authenticated(req[s])]_vars

\* C38 witness: the record of an identity is stored, sealed to its registered
\* key, while a request with another (valid) key for the same user id has
\* been answered 403 and a malformed request 400, neither having written.
C38_Witness ==
    \E s, t \in Slots :
        /\ s # t
        /\ req[s].pc = "done" /\ req[s].resp.status = 403
        /\ sha256(req[s].publicKey) = req[s].publicKeyHash
        /\ getUser(req[s].uid).present
        /\ getUser(req[s].uid).public_key_hash # req[s].publicKeyHash
        /\ getUserData(req[s].uid).present
        /\ getUserData(req[s].uid).encrypted_data.bytes.to
              = getUser(req[s].uid).public_key
        /\ req[t].pc = "done" /\ req[t].resp.status = 400
        /\ ~req[s].wrote /\ ~req[t].wrote

(***************************************************************************)
(* Claims about the sync sessions of one device (checked under SpecClient).*)
(***************************************************************************)
\* C12: at most one sync session is in flight on a device at any time,
\* whether sessions are started by the timer of autoSync or by handleSync.
C12_SingleSession ==
    \A d \in Devices : ~(sess[d].pc # "idle" /\ auto[d].pc # "idle")

\* this step ends the manual session of d without success, or moves it on
ManualStepWithoutCommit(d) ==
    /\ sess[d].pc # "idle"
    /\ sess'[d] # sess[d]
    /\ sess'[d].state # "success"
\* this step ends the automatic session of d in its catch block, or moves it on
AutoStepWithoutCommit(d) ==
    /\ auto[d].pc # "idle"
    /\ auto'[d] # auto[d]
    /\ auto'[d].log # "Auto-sync completed"

\* C13: a step of a sync session that fails (error status, lost response,
\* decryption failure) or that is not the session's last leaves the device's
\* tasks, categories and lastSyncedAt as they are; only the successful end of
\* a session changes them.
C13_FailureLeavesLocalState ==
    [][\A d \in Devices :
         (ManualStepWithoutCommit(d) \/ AutoStepWithoutCommit(d)) =>
             /\ dev'[d].tasks = dev[d].tasks
             /\ dev'[d].categories = dev[d].categories
             /\ dev'[d].lastSyncedAt = dev[d].lastSyncedAt]_vars

\* C13 witness: a manual session has failed after its merged data had been
\* written by the server (the record was written twice and no session of the
\* device has ever committed), and the device still holds its task.
C13_Witness ==
    /\ sess[ClientDevice].state = "error"
    /\ StoredVersion(FirstUid) = 2
    /\ dev[ClientDevice].lastSyncedAt = Undefined
    /\ Len(dev[ClientDevice].tasks) = 1
    /\ Attributes(StoredData.tasks) = Attributes(dev[ClientDevice].tasks)

\* a value is sealed: the base64 text of a sealed box
Sealed(value) == DOMAIN value = {"alphabet", "bytes"}

\* C14: every value of a user's task and category data that the server
\* receives in a request or holds in the table user_data is ciphertext.
C14_ZeroKnowledge ==
    /\ \A s \in Slots :
         (req[s].pc # "idle" /\ req[s].data # Missing) => Sealed(req[s].data)
    /\ \A row \in userData : Sealed(row.encrypted_data)

\* C15: no request the client sends and no row of the tables users and
\* user_data contains the private key of any key pair.
C15_PrivateKeyStaysOnClient ==
    \A k \in KeyPairs :
        /\ \A s \in Slots :
             /\ req[s].publicKey # PrivateKeyOf(k)
             /\ req[s].publicKeyHash # PrivateKeyOf(k)
             /\ req[s].publicKeyHash # sha256(PrivateKeyOf(k))
             /\ req[s].uid # PrivateKeyOf(k)
             /\ req[s].data # PrivateKeyOf(k)
             /\ "privateKey" \notin DOMAIN req[s]
             /\ req[s].user.present =>
                  /\ req[s].user.public_key # PrivateKeyOf(k)
                  /\ req[s].user.public_key_hash # sha256(PrivateKeyOf(k))
        /\ \A row \in users :
             /\ row.public_key # PrivateKeyOf(k)
             /\ row.public_key_hash # PrivateKeyOf(k)
             /\ row.public_key_hash # sha256(PrivateKeyOf(k))
        /\ \A row \in userData :
             /\ row.encrypted_data # PrivateKeyOf(k)
             /\ row.encrypted_data.bytes.to # PrivateKeyOf(k)

\* C15 witness: the device has decrypted a response with its private key and
\* committed the session, and the server holds its identity and its record.
C15_Witness ==
    /\ sess[ClientDevice].state = "success"
    /\ dev[ClientDevice].lastSyncedAt # Undefined
    /\ Len(dev[ClientDevice].tasks) = 1
    /\ getUser(FirstUid).present
    /\ getUserData(FirstUid).present
    /\ Attributes(StoredData.tasks) = Attributes(dev[ClientDevice].tasks)

\* C20: the pending timer of autoSync holds the snapshot of the last trigger.
\* Every change of the device's tasks or categories is a trigger, so the
\* snapshot of a pending timer is the device's present data, also when the
\* last trigger was skipped because its fingerprint equals lastSyncedData.
C20_Debounce ==
    \A d \in Devices :
        auto[d].syncTimeout.set =>
            /\ auto[d].syncTimeout.user.tasks = dev[d].tasks
            /\ auto[d].syncTimeout.user.categories = dev[d].categories
            /\ auto[d].syncTimeout.user.deletedTasks = dev[d].deletedTasks
            /\ auto[d].syncTimeout.user.deletedCategories = dev[d].deletedCategories

\* a request enters slot s in this step
Sends(s) == req[s].pc \in {"idle", "done"} /\ req'[s].pc \notin {"idle", "done"}
\* the first response in slot s is a 200 with needsMerge that the client reads
MergeAsked(s) ==
    /\ req[s].pc = "done"
    /\ req[s].resp.status = 200
    /\ req[s].resp.needsMerge
    /\ Decrypts(req[s].resp.encryptedData, DeviceKey)
\* the request that entered slot s carries merged:true and the prepared merge
\* of user with the payload of the first response
CarriesMerge(s, user) ==
    LET serverData == decryptData(req[s].resp.encryptedData) IN
    /\ req'[s].merged = TRUE
    /\ req'[s].data =
         [tasks |-> prepareTasks(
                       mergeTasks(user.tasks, serverData.tasks, user.deletedTasks),
                       now),
          categories |-> prepareCategories(
                       mergeCategories(user.categories, serverData.categories,
                                       user.deletedCategories), now)]
\* the session of a controller in slot s, at pc and then pc2, takes a step that
\* respects the order of a session
OrderedStep(s, pc, pc2, user, commits) ==
    /\ Sends(s) =>
         \/ pc = "idle" /\ pc2 = "phase1" /\ req'[s].merged = FALSE
         \/ pc = "phase1" /\ pc2 = "phase2" /\ MergeAsked(s) /\ CarriesMerge(s, user)
    /\ pc = "phase2" => pc2 \in {"phase2", "idle"}
    /\ pc2 = "phase2" => pc \in {"phase1", "phase2"}
    /\ commits =>
         /\ req[s].pc = "done" /\ req[s].resp.status = 200
         /\ pc2 = "idle" /\ ~Sends(s)
         /\ pc = "phase1" => ~req[s].resp.needsMerge

\* C27: a session sends its first request with merged:false, sends a second
\* one only on a decrypted first response with needsMerge, with merged:true
\* and the merged collections, sends no third, and changes the device's data
\* only when its last request has returned 200; for handleSync and for the
\* timer callback of autoSync.
C27_SessionOrder ==
    [][\A d \in {ClientDevice} :
         /\ OrderedStep(SlotOf(d), sess[d].pc, sess'[d].pc, sess[d].user,
                        sess[d].pc # "idle" /\ sess'[d].state = "success")
         /\ OrderedStep(AutoSlotOf(d), auto[d].pc, auto'[d].pc, auto[d].user,
                        auto[d].pc # "idle"
                            /\ auto'[d].log = "Auto-sync completed")]_vars

\* C27 witness: the manual session awaits the response to its second request,
\* which carries merged:true and two tasks and is about to be stored.
C27_Witness ==
    /\ sess[ClientDevice].pc = "phase2"
    /\ req[SlotOf(ClientDevice)].pc = "save"
    /\ req[SlotOf(ClientDevice)].merged = TRUE
    /\ Len(req[SlotOf(ClientDevice)].data.tasks) = 2

\* a step of the manual or of the automatic session of d
SessionStep(d) ==
    \/ sess'[d] # sess[d]
    \/ auto'[d].pc # auto[d].pc
    \/ auto'[d].log # auto[d].log

\* C29: no step of a sync session, manual or automatic, failing or
\* committing, changes the device's deletedTasks or deletedCategories.
C29_TombstonesUntouched ==
    [][\A d \in Devices :
         SessionStep(d) =>
            /\ dev'[d].deletedTasks = dev[d].deletedTasks
            /\ dev'[d].deletedCategories = dev[d].deletedCategories]_vars

\* C29 witness: a manual session has merged with the tombstone of a, written
\* the record without a and committed, and the tombstone is still there.
C29_Witness ==
    /\ sess[ClientDevice].state = "success"
    /\ dev[ClientDevice].deletedTasks = {"a"}
    /\ dev[ClientDevice].lastSyncedAt # Undefined
    /\ StoredVersion(FirstUid) = 2
    /\ "a" \notin IdsOf(StoredData.tasks)
    /\ "a" \in ghost[ClientDevice].syncedDeleted

(***************************************************************************)
(* Claims about the session controllers (checked under SpecSession).       *)
(***************************************************************************)
\* the payload the session of d reads in the response it is about to handle
ManualPayload(d) == decryptData(req[SlotOf(d)].resp.encryptedData)
AutoPayload(d) == decryptData(req[AutoSlotOf(d)].resp.encryptedData)

SealedTo(k) == lib.sealed # Missing /\ lib.sealed.bytes.to = PublicKeyOf(k)

\* C24: what the client reads, with a public key and its private key, in the
\* text the server's encryptData made for that public key is the plaintext.
C24_SealedBoxRoundTrip ==
    \A k \in KeyPairs :
        (/\ SealedTo(k)
         /\ lib.opened # Missing
         /\ lib.opened.publicKey = PublicKeyOf(k)
         /\ lib.opened.privateKey = PrivateKeyOf(k)) =>
            lib.opened.serverData = lib.plaintext

Calls(type) ==
    /\ lib'.calls = lib.calls + 1
    /\ lib'.returned.type = type
OtherType(type) == IF type = "task" THEN "category" ELSE "task"

\* C26: a call of getNextNumericId for a type whose counter is below 65535
\* returns the counter plus 1, a value of 1..65535, and stores it; a call at
\* 65535 throws and leaves the counter as it is; the counter of the other
\* type is never touched.
C26_NumericIdCounter ==
    [][\A type \in EntityTypes :
         Calls(type) =>
            /\ currentId(OtherType(type))' = currentId(OtherType(type))
            /\ IF currentId(type) < IdCounterLimit
               THEN /\ ~lib'.returned.thrown
                    /\ lib'.returned.value = currentId(type) + 1
                    /\ lib'.returned.value \in 1..IdCounterLimit
                    /\ currentId(type)' = lib'.returned.value
               ELSE /\ lib'.returned.thrown
                    /\ currentId(type)' = currentId(type)]_vars

\* C26 witness: the task counter has handed out 65535 and the next call for
\* tasks has thrown.
C26_Witness ==
    /\ lib.calls = 2
    /\ lib.taskIdCounter = IdCounterLimit
    /\ lib.returned.called /\ lib.returned.type = "task" /\ lib.returned.thrown
    /\ lib.categoryIdCounter = 0

(***************************************************************************)
(* Claims about local changes and sessions of one device (SpecClient).      *)
(***************************************************************************)
\* this step is the successful end of the manual session of d
ManualCommit(d) ==
    sess[d].pc # "idle" /\ sess'[d].pc = "idle" /\ sess'[d].state = "success"
\* this step is the successful end of the automatic session of d
AutoCommit(d) ==
    auto[d].pc # "idle" /\ auto'[d].pc = "idle"
        /\ auto'[d].log = "Auto-sync completed"
\* the working copy after the step holds what the device changed since the
\* session took its snapshot: entities added or edited, entities deleted
KeepsChangesSince(d, snapshot) ==
    /\ \A e \in SeqToSet(dev[d].tasks) \ SeqToSet(snapshot.tasks) :
          \E k \in SeqToSet(dev'[d].tasks) : k.id = e.id /\ k.name = e.name
    /\ \A id \in dev[d].deletedTasks \ snapshot.deletedTasks :
          id \notin IdsOf(dev'[d].tasks)

\* C31: a local change (entity added, edited or deleted) made on a device
\* while one of its sync sessions is in flight is still present in the
\* device's working copy after the session commits.
C31_ChangeSurvivesCommit ==
    [][/\ ManualCommit(ClientDevice) =>
             KeepsChangesSince(ClientDevice, sess[ClientDevice].user)
       /\ AutoCommit(ClientDevice) =>
             KeepsChangesSince(ClientDevice, auto[ClientDevice].user)]_vars

(***************************************************************************)
(* Claims about logout (checked under SpecSession).                         *)
(***************************************************************************)
\* C35: while the sync credentials are cleared from the device (after
\* handleLogout and before a later manual sync stores credentials again),
\* the automatic sync sends no request: neither from a debounce timer that
\* was scheduled before the logout nor from an automatic session that was
\* started before it.
C35_NoRequestAfterLogout ==
    [][~auto[ClientDevice].credentials => ~Sends(AutoSlotOf(ClientDevice))]_vars

(***************************************************************************)
(* Claims about the automatic sync coming to rest (SpecClient).             *)
(***************************************************************************)
\* the step schedules the debounce timer of d
Schedules(d) ==
    auto'[d].syncTimeout.set /\ auto'[d].syncTimeout # auto[d].syncTimeout
\* the device made no local change while its automatic session was running
UnchangedSince(d, snapshot) ==
    dev[d].tasks = snapshot.tasks /\ dev[d].categories = snapshot.categories

\* C36: the state change committed by a successful automatic session starts
\* no other session: after the commit no timer is pending, the busy flag is
\* down, and (when no local change was made during the session) the
\* fingerprint of the working copy is the recorded last-synced fingerprint.
\* A timer is scheduled only by a local change or by the end of a manual
\* sync, so after a local change only finitely many sessions run.
C36_AutoSyncQuiesces ==
    [][/\ AutoCommit(ClientDevice) =>
             /\ ~auto'[ClientDevice].syncTimeout.set
             /\ ~auto'[ClientDevice].isSyncing
             /\ UnchangedSince(ClientDevice, auto[ClientDevice].user) =>
                   auto'[ClientDevice].lastSyncedData =
                       DataHash(dev'[ClientDevice].tasks,
                                dev'[ClientDevice].categories)
       /\ Schedules(ClientDevice) =>
             (opCount' # opCount \/ ManualCommit(ClientDevice))]_vars

\* C36 witness: an automatic session has committed a merge; the device holds
\* a task, its fingerprint is the recorded one and no timer is pending.
C36_Witness ==
    /\ auto[ClientDevice].log = "Auto-sync completed"
    /\ auto[ClientDevice].pc = "idle"
    /\ ~auto[ClientDevice].syncTimeout.set
    /\ Len(dev[ClientDevice].tasks) = 1
    /\ StoredVersion(FirstUid) >= 2
    /\ auto[ClientDevice].lastSyncedData =
          DataHash(dev[ClientDevice].tasks, dev[ClientDevice].categories)

\* C37: every automatic sync session, whether it succeeds or fails at any
\* step, ends with isSyncing false: whenever no timer callback is running on
\* a device the busy flag is down, so a later trigger is never blocked by a
\* session that has already ended.
C37_BusyFlagReleased ==
    auto[ClientDevice].pc = "idle" => ~auto[ClientDevice].isSyncing

\* C37 witness: an automatic session has ended in its catch block after the
\* server had stored its merged data (the response was lost), the flag is
\* down, and the next local change has scheduled the timer again.
C37_Witness ==
    /\ auto[ClientDevice].pc = "idle"
    /\ auto[ClientDevice].log = "Auto-sync error"
    /\ ~auto[ClientDevice].isSyncing
    /\ StoredVersion(FirstUid) >= 2
    /\ auto[ClientDevice].syncTimeout.set

(***************************************************************************)
(* Claims about the stored credentials (checked under SpecLogin).           *)
(***************************************************************************)
\* the server holds the device's user id under the device's key
Accepted ==
    /\ getUser(FirstUid).present
    /\ getUser(FirstUid).public_key = PublicKeyOf(DeviceKey)
    /\ getUser(FirstUid).public_key_hash = sha256(PublicKeyOf(DeviceKey))

\* C39: sync credentials are stored only at the successful end of a manual
\* sync whose last response was a 200; a manual sync that fails at any step
\* (an error status such as 403, a lost response, a decryption failure)
\* stores none; so a pending timer or a running automatic session always
\* has credentials that the server holds an identity for.
C39_CredentialsAfterSuccess ==
    /\ [](/\ auto[ClientDevice].credentials => Accepted
          /\ (auto[ClientDevice].syncTimeout.set \/ auto[ClientDevice].pc # "idle")
                => auto[ClientDevice].credentials)
    /\ [][/\ (auto'[ClientDevice].credentials /\ ~auto[ClientDevice].credentials)
                => /\ ManualCommit(ClientDevice)
                   /\ req[SlotOf(ClientDevice)].resp.status = 200
          /\ (sess[ClientDevice].pc # "idle" /\ sess'[ClientDevice].state = "error")
                => auto'[ClientDevice].credentials = auto[ClientDevice].credentials
         ]_vars

\* C39 witness: the user id is registered under another key, a manual sync
\* of the device (holding a task) has been answered 403 and has ended in
\* error, and the device holds no credentials and no timer.
C39_Witness ==
    /\ getUser(FirstUid) = RegisteredElsewhere
    /\ initializationPromise = "fulfilled"
    /\ sess[ClientDevice].pc = "idle"
    /\ sess[ClientDevice].state = "error"
    /\ Len(dev[ClientDevice].tasks) = 1
    /\ ~auto[ClientDevice].credentials
    /\ ~auto[ClientDevice].syncTimeout.set

====
